---------------------------- MODULE Spec2Model ----------------------------
(***************************************************************************)
(* GPS Rescue controller (gps_rescue.c, carried in                         *)
(* src/src/main/drivers/at32/timer_at32f43x.c lines 130-1018).             *)
(*                                                                         *)
(* The module state of the C file is the record rs; one action models one  *)
(* call of gpsRescueUpdate, one models gpsRescueNewGpsData.                *)
(*                                                                         *)
(* Number representation (float fields are fixed point integers):          *)
(*   altitudes, distances          cm                                      *)
(*   distanceToHomeM, descentDistanceM   held in cm (value in m times 100) *)
(*   *IntervalSeconds              milliseconds                            *)
(*   yawAttenuator, velocityItermRelax, proximityToLandingArea,            *)
(*   descentRateModifier           permille (1000 is 1.0)                  *)
(*   pitchAngleLimitDeg, rollAngleLimitDeg   centidegrees                  *)
(*   errorAngle, absErrorAngle     decidegrees                             *)
(*   accMagnitude, disarmThreshold tenths of g                             *)
(*   gpsRescueAngle                centidegrees, as in the source          *)
(* Divisions truncate toward zero.                                         *)
(***************************************************************************)
EXTENDS Integers, Sequences, FiniteSets, TLC

VARIABLES
    rs,     \* rescueState and every file-scope / function-static variable
    cfg,    \* gpsRescueConfig(), gpsConfig(), build options: fixed after boot
    in,     \* what the collaborators returned to the last gpsRescueUpdate
    prev,   \* values of rs at the start of the last gpsRescueUpdate
    op,     \* "boot" until the first gpsRescueUpdate has run
    faults  \* updates so far that saw an off-nominal condition

vars == <<rs, cfg, in, prev, op, faults>>

---------------------------------------------------------------------------
(* Bounds of the model *)

\* the scheduler rate of the rescue task used by the model (Hz)
TaskRateHz == 2

\* rescues started in one behaviour
MaxRescues == 1

\* updates are explored while |targetAltitudeCm| stays within this many cm
MaxTargetAltitudeCm == 1000

\* updates of one behaviour that see an off-nominal condition
MaxFaults == 1

\* updates of one behaviour of SpecFlyaway in which the craft closes on home
MaxCloses == 8

\* the distance closed by such an update, and the distance the flight starts at (cm)
CloseCm == 300

FarCm == 10000

\* SpecStuck: the largest |targetAltitudeCm| explored
MaxStuckAltitudeCm == 6000

\* SpecRamp: runs of the rescue task per second
RampRateHz == 3

\* SpecAngle: headings are taken every HeadingStep tenths of a degree; whole
\* turns added to a heading, either way
HeadingStep == 150

MaxTurns == 2

---------------------------------------------------------------------------
(* Program constants *)

GPS_RESCUE_MAX_YAW_RATE == 180
GPS_RESCUE_MIN_DESCENT_DIST_M == 5
GPS_RESCUE_MAX_THROTTLE_ITERM == 200
GPS_MIN_SAT_COUNT == 4
OneSecondUs == 1000000

RescuePhases ==
    {"RESCUE_IDLE", "RESCUE_INITIALIZE", "RESCUE_ATTAIN_ALT", "RESCUE_ROTATE",
     "RESCUE_FLY_HOME", "RESCUE_DESCENT", "RESCUE_LANDING", "RESCUE_ABORT",
     "RESCUE_COMPLETE", "RESCUE_DO_NOTHING"}

RescueFailureStates ==
    {"RESCUE_HEALTHY", "RESCUE_FLYAWAY", "RESCUE_GPSLOST", "RESCUE_LOWSATS",
     "RESCUE_CRASH_FLIP_DETECTED", "RESCUE_STALLED", "RESCUE_TOO_CLOSE",
     "RESCUE_NO_HOME_POINT"}

---------------------------------------------------------------------------
(* common/maths.h helpers used by the file *)

Abs(x) == IF x < 0 THEN -x ELSE x

\* float division, truncated toward zero
Quot(a, b) == IF (a < 0) = (b < 0) THEN Abs(a) \div Abs(b) ELSE -(Abs(a) \div Abs(b))

\* constrain() / constrainf(): low wins over high when both apply
constrain(amt, low, high) == IF amt < low THEN low ELSE IF amt > high THEN high ELSE amt

MIN(a, b) == IF a < b THEN a ELSE b

fmaxf(a, b) == IF a > b THEN a ELSE b

\* GET_DIRECTION(isReversed)
GET_DIRECTION(isReversed) == IF isReversed THEN -1 ELSE 1

\* the float value of 0.0 / 0.0
NaN == "NaN"

\* constrainf(num / den, 0.0f, 1.0f) in permille, with IEEE division by zero
constrainRatio(num, den) ==
    IF den = 0
    THEN IF num > 0 THEN 1000 ELSE IF num < 0 THEN 0 ELSE NaN
    ELSE constrain(Quot(num * 1000, den), 0, 1000)

\* HZ_TO_INTERVAL(TASK_GPS_RESCUE_RATE_HZ) in milliseconds
gpsRescueTaskIntervalSeconds == 1000 \div TaskRateHz

---------------------------------------------------------------------------
(* Collaborators called by the file *)

\* setArmingDisabled(ARMING_DISABLED_ARM_SWITCH); disarm(reason);
\* the calls made by one update are kept in rs.disarmLog
disarm(s, reason) ==
    [s EXCEPT !.armingDisabled = TRUE, !.disarmLog = Append(@, reason)]

\* sqrtf() of a sum of squares, to the integer below
RECURSIVE sqrtBetween(_, _, _)
sqrtBetween(n, lo, hi) ==
    IF lo >= hi THEN lo
    ELSE LET mid == (lo + hi + 1) \div 2
         IN  IF mid * mid <= n THEN sqrtBetween(n, mid, hi) ELSE sqrtBetween(n, lo, mid - 1)

sqrtf(n) == sqrtBetween(n, 0, MIN(n, 46340))

---------------------------------------------------------------------------
(* rescueStart, rescueStop *)

\* a variant that gives every rescue a fresh try with the magnetometer
rescueStartFresh(s) ==
    [s EXCEPT !.phase = "RESCUE_INITIALIZE", !.rescues = @ + 1,
              !.magForceDisable = FALSE]

\* rs.rescues counts the rescues started since boot
rescueStart(s) == [s EXCEPT !.phase = "RESCUE_INITIALIZE", !.rescues = @ + 1]

rescueStop(s) == [s EXCEPT !.phase = "RESCUE_IDLE"]

---------------------------------------------------------------------------
(* setReturnAltitude: runs in the Idle phase *)

\* a variant that returns at the altitude of the moment in the Max mode too
returnAltitudeForCurrent(s, maxAltitudeCm) ==
    CASE cfg.altitudeMode = "GPS_RESCUE_ALT_MODE_FIXED" ->
            cfg.initialAltitudeM * 100
      [] OTHER ->
            s.currentAltitudeCm + cfg.rescueAltitudeBufferM * 100

\* lines 327-338: the return altitude of each altitude mode
returnAltitudeFor(s, maxAltitudeCm) ==
    CASE cfg.altitudeMode = "GPS_RESCUE_ALT_MODE_FIXED" ->
            cfg.initialAltitudeM * 100
      [] cfg.altitudeMode = "GPS_RESCUE_ALT_MODE_CURRENT" ->
            s.currentAltitudeCm + cfg.rescueAltitudeBufferM * 100
      [] OTHER ->
            maxAltitudeCm + cfg.rescueAltitudeBufferM * 100

\* a variant that raises the return altitude by the buffer at every packet
setReturnAltitudeRaising(s, i) ==
    IF ~i.armed /\ ~cfg.gps_set_home_point_once
    THEN [s EXCEPT !.maxAltitudeCm = 0]
    ELSE LET maxAlt == fmaxf(s.currentAltitudeCm, s.maxAltitudeCm)
             s1 == [s EXCEPT !.maxAltitudeCm = maxAlt]
         IN  IF s.newGPSData
             THEN [s1 EXCEPT
                     !.targetAltitudeCm = s.currentAltitudeCm,
                     !.descentDistanceM =
                         constrain(s.distanceToHomeM,
                                   GPS_RESCUE_MIN_DESCENT_DIST_M * 100,
                                   cfg.descentDistanceM * 100),
                     !.returnAltitudeCm = @ + cfg.rescueAltitudeBufferM * 100]
             ELSE s1

setReturnAltitude(s, i) ==
    IF ~i.armed /\ ~cfg.gps_set_home_point_once
    THEN [s EXCEPT !.maxAltitudeCm = 0]
    ELSE LET maxAlt == fmaxf(s.currentAltitudeCm, s.maxAltitudeCm)
             s1 == [s EXCEPT !.maxAltitudeCm = maxAlt]
         IN  IF s.newGPSData
             THEN [s1 EXCEPT
                     !.targetAltitudeCm = s.currentAltitudeCm,
                     !.descentDistanceM =
                         constrain(s.distanceToHomeM,
                                   GPS_RESCUE_MIN_DESCENT_DIST_M * 100,
                                   cfg.descentDistanceM * 100),
                     !.returnAltitudeCm = returnAltitudeFor(s, maxAlt)]
             ELSE s1

---------------------------------------------------------------------------
(* rescueAttainPosition: the three controllers *)

\* a variant that leaves the outputs of the last rescue in place
attainIdleStale(s, i) == s

\* case RESCUE_IDLE: values returned when no rescue is active
attainIdle(s, i) ==
    [s EXCEPT !.gpsRescueAngle = [AI_PITCH |-> 0, AI_ROLL |-> 0],
              !.rescueThrottle = i.rcCommandThrottle]

\* a variant that keeps the velocity terms of the last rescue
attainInitializeKeepVelocity(s) ==
    [s EXCEPT !.throttleI = 0,
              !.previousAltitudeError = 0,
              !.throttleAdjustment = 0,
              !.disarmThreshold = cfg.disarmThreshold]

\* case RESCUE_INITIALIZE: the function statics are zeroed
attainInitialize(s) ==
    [s EXCEPT !.previousVelocityError = 0,
              !.velocityI = 0,
              !.throttleI = 0,
              !.previousAltitudeError = 0,
              !.throttleAdjustment = 0,
              !.disarmThreshold = cfg.disarmThreshold]

\* a variant that levels the craft and leaves the throttle where it was
attainDoNothingLevel(s) ==
    [s EXCEPT !.gpsRescueAngle = [AI_PITCH |-> 0, AI_ROLL |-> 0]]

\* case RESCUE_DO_NOTHING: slow descent
attainDoNothing(s) ==
    [s EXCEPT !.gpsRescueAngle = [AI_PITCH |-> 0, AI_ROLL |-> 0],
              !.rescueThrottle = cfg.throttleHover - 100]

\* a variant that hands the throttle on as computed
throttleControllerUnlimited(s, i) ==
    LET altitudeError == s.targetAltitudeCm - s.currentAltitudeCm
        throttleI ==
            constrain(s.throttleI
                        + Quot(cfg.throttleI * altitudeError * s.altitudeDataIntervalSeconds,
                               1000000),
                      -GPS_RESCUE_MAX_THROTTLE_ITERM, GPS_RESCUE_MAX_THROTTLE_ITERM)
        throttleAdjustment ==
            Quot(cfg.throttleP * altitudeError, 100) + throttleI
              + cfg.throttleD * i.throttleDLpfOut
              + Quot((1000 - i.cosTiltAngle) * (cfg.throttleHover - 1000), 1000)
    IN  [s EXCEPT !.throttleI = throttleI,
                  !.previousAltitudeError = altitudeError,
                  !.throttleAdjustment = throttleAdjustment,
                  !.rescueThrottle = cfg.throttleHover + throttleAdjustment]

\* altitude (throttle) controller; altitudeError is kept in cm
throttleController(s, i) ==
    LET altitudeError == s.targetAltitudeCm - s.currentAltitudeCm
        throttleP == Quot(cfg.throttleP * altitudeError, 100)
        throttleI ==
            constrain(s.throttleI
                        + Quot(cfg.throttleI * altitudeError * s.altitudeDataIntervalSeconds,
                               1000000),
                      -GPS_RESCUE_MAX_THROTTLE_ITERM, GPS_RESCUE_MAX_THROTTLE_ITERM)
        \* pt2FilterApply(&throttleDLpf, verticalSpeed) is what the filter returned
        throttleD == cfg.throttleD * i.throttleDLpfOut
        tiltAdjustment == Quot((1000 - i.cosTiltAngle) * (cfg.throttleHover - 1000), 1000)
        throttleAdjustment == throttleP + throttleI + throttleD + tiltAdjustment
    IN  [s EXCEPT
            !.throttleI = throttleI,
            !.previousAltitudeError = altitudeError,
            !.throttleAdjustment = throttleAdjustment,
            !.rescueThrottle =
                constrain(cfg.throttleHover + throttleAdjustment,
                          cfg.throttleMin, cfg.throttleMax)]

\* heading / yaw controller with roll mixed in
yawController(s) ==
    LET yaw0 == Quot(s.errorAngle * cfg.yawP * s.yawAttenuator, 100000)
        yaw == constrain(yaw0, -GPS_RESCUE_MAX_YAW_RATE, GPS_RESCUE_MAX_YAW_RATE)
        rollMixAttenuator == constrain(1000 - Abs(yaw) * 10, 0, 1000)
        rollAdjustment == Quot(-yaw * cfg.rollMix * rollMixAttenuator, 1000)
        rollLimit == s.rollAngleLimitDeg
    IN  [s EXCEPT
            !.gpsRescueAngle.AI_ROLL = constrain(rollAdjustment, -rollLimit, rollLimit),
            !.rescueYaw = yaw * GET_DIRECTION(cfg.yaw_control_reversed)]

\* a variant whose integrator is bounded by the pitch limit, not by half of it
velocityControllerWideI(s, i) ==
    LET velocityError == s.targetVelocityCmS - s.velocityToHomeCmS
        velocityIsum ==
            s.velocityI
              + Quot(Quot(cfg.velI * velocityError * s.gpsDataIntervalSeconds, 10000)
                       * s.velocityItermRelax, 1000)
        velocityI == constrain(Quot(velocityIsum * s.proximityToLandingArea, 1000),
                               -s.pitchAngleLimitDeg, s.pitchAngleLimitDeg)
    IN  IF s.newGPSData
        THEN [s EXCEPT !.velocityI = velocityI,
                       !.previousVelocityError = velocityError,
                       !.pitchAdjustment =
                           constrain(velocityError * cfg.velP + velocityI + i.velocityDLpfOut,
                                     -s.pitchAngleLimitDeg, s.pitchAngleLimitDeg)]
        ELSE s

\* a variant that evaluates the velocity PID in every update
velocityControllerEveryTick(s, i) ==
    LET velocityError == s.targetVelocityCmS - s.velocityToHomeCmS
        velocityIsum ==
            s.velocityI
              + Quot(Quot(cfg.velI * velocityError * s.gpsDataIntervalSeconds, 10000)
                       * s.velocityItermRelax, 1000)
        velocityI == constrain(Quot(velocityIsum * s.proximityToLandingArea, 1000),
                               -Quot(s.pitchAngleLimitDeg, 2), Quot(s.pitchAngleLimitDeg, 2))
    IN  [s EXCEPT !.velocityI = velocityI,
                  !.previousVelocityError = velocityError,
                  !.pitchAdjustment =
                      constrain(velocityError * cfg.velP + velocityI + i.velocityDLpfOut,
                                -s.pitchAngleLimitDeg, s.pitchAngleLimitDeg)]

\* pitch / velocity controller: evaluated only with new GPS data
velocityController(s, i) ==
    LET velocityError == s.targetVelocityCmS - s.velocityToHomeCmS
        velocityP == velocityError * cfg.velP
        velocityIsum ==
            s.velocityI
              + Quot(Quot(cfg.velI * velocityError * s.gpsDataIntervalSeconds, 10000)
                       * s.velocityItermRelax, 1000)
        velocityIrelaxed == Quot(velocityIsum * s.proximityToLandingArea, 1000)
        pitchAngleLimit == s.pitchAngleLimitDeg
        velocityPILimit == Quot(pitchAngleLimit, 2)
        velocityI == constrain(velocityIrelaxed, -velocityPILimit, velocityPILimit)
        \* pt1FilterApply(&velocityDLpf, velocityD) is what the filter returned
        velocityD == i.velocityDLpfOut
        pitchAdjustment ==
            constrain(velocityP + velocityI + velocityD, -pitchAngleLimit, pitchAngleLimit)
    IN  IF s.newGPSData
        THEN [s EXCEPT !.velocityI = velocityI,
                       !.previousVelocityError = velocityError,
                       !.pitchAdjustment = pitchAdjustment]
        ELSE s

\* pt3FilterApply(&velocityUpsampleLpf, pitchAdjustment) is what the filter returned
upsamplePitch(s, i) == [s EXCEPT !.gpsRescueAngle.AI_PITCH = i.velocityUpsampleLpfOut]

rescueAttainPosition(s, i) ==
    CASE s.phase = "RESCUE_IDLE" -> attainIdle(s, i)
      [] s.phase = "RESCUE_INITIALIZE" -> attainInitialize(s)
      [] s.phase = "RESCUE_DO_NOTHING" -> attainDoNothing(s)
      [] OTHER ->
            upsamplePitch(velocityController(yawController(throttleController(s, i)), i), i)

---------------------------------------------------------------------------
(* performSanityChecks: the sanity supervisor *)

\* a variant that starts a rescue with the low-satellite count of the last one
sanityInitializeKeepSats(s) ==
    IF s.phase = "RESCUE_INITIALIZE"
    THEN [s EXCEPT !.sanityDTime = 0,
                   !.passDistanceCm = s.distanceToHomeCm,
                   !.prevAltitudeCm = s.currentAltitudeCm,
                   !.prevTargetAltitudeCm = s.targetAltitudeCm,
                   !.previousDistanceToHomeCm = s.distanceToHomeCm,
                   !.secondsDoingNothing = 0]
    ELSE s

\* lines 522-530: statics re-seeded when a rescue starts
sanityInitialize(s) ==
    IF s.phase = "RESCUE_INITIALIZE"
    THEN [s EXCEPT !.sanityDTime = 0,
                   !.passDistanceCm = s.distanceToHomeCm,
                   !.prevAltitudeCm = s.currentAltitudeCm,
                   !.prevTargetAltitudeCm = s.targetAltitudeCm,
                   !.previousDistanceToHomeCm = s.distanceToHomeCm,
                   !.secondsLowSats = 0,
                   !.secondsDoingNothing = 0]
    ELSE s

\* a variant that treats the failsafe-only policy as sanity checks on
sanityEscalationStrict(s, i) ==
    IF s.failure # "RESCUE_HEALTHY"
    THEN [s EXCEPT !.phase =
            IF cfg.sanityChecks \in {"RESCUE_SANITY_ON", "RESCUE_SANITY_FS_ONLY"}
            THEN "RESCUE_ABORT" ELSE "RESCUE_DO_NOTHING"]
    ELSE s

\* lines 537-557: the phase a failure is escalated to
sanityEscalation(s, i) ==
    LET hardFailsafe == ~i.rxIsReceivingSignal
    IN  IF s.failure # "RESCUE_HEALTHY"
        THEN CASE cfg.sanityChecks = "RESCUE_SANITY_ON" ->
                    [s EXCEPT !.phase = "RESCUE_ABORT"]
               [] cfg.sanityChecks = "RESCUE_SANITY_FS_ONLY" ->
                    [s EXCEPT !.phase = IF hardFailsafe THEN "RESCUE_ABORT"
                                        ELSE "RESCUE_DO_NOTHING"]
               [] OTHER ->
                    [s EXCEPT !.phase =
                        IF cfg.allowArmingWithoutFix /\ ~i.fixHome /\ hardFailsafe
                        THEN "RESCUE_ABORT" ELSE "RESCUE_DO_NOTHING"]
        ELSE s

\* a variant that disarms on a crash and lets the rescue go on
sanityCrashFlipGoOn(s, i) ==
    IF i.crashRecoveryModeActive
    THEN disarm(s, "DISARM_REASON_CRASH_PROTECTION")
    ELSE s

\* lines 559-564: crash detection
sanityCrashFlip(s, i) ==
    IF i.crashRecoveryModeActive
    THEN rescueStop(disarm(s, "DISARM_REASON_CRASH_PROTECTION"))
    ELSE s

\* a variant that never reports the loss of GPS comms
sanityGpsHealthMute(s) == s

\* a variant that withdraws the failure when GPS comms are healthy
sanityGpsHealthHealing(s) ==
    [s EXCEPT !.failure = IF s.healthy THEN "RESCUE_HEALTHY" ELSE "RESCUE_GPSLOST"]

\* lines 566-570: GPS comms
sanityGpsHealth(s) ==
    IF ~s.healthy THEN [s EXCEPT !.failure = "RESCUE_GPSLOST"] ELSE s

\* a variant that declares a flyaway at the first saturation, magnetometer or not
sanityFlyawayNoRetry(s, i) ==
    IF s.phase = "RESCUE_FLY_HOME"
    THEN LET velocityToHomeCmS == s.previousDistanceToHomeCm - s.distanceToHomeCm
             failing == 2 * velocityToHomeCmS < s.targetVelocityCmS
             secondsFailing ==
                 constrain(s.secondsFailing + (IF failing THEN 1 ELSE -1), 0, 15)
             s1 == [s EXCEPT !.previousDistanceToHomeCm = s.distanceToHomeCm,
                             !.secondsFailing = secondsFailing]
         IN  IF secondsFailing = 15 THEN [s1 EXCEPT !.failure = "RESCUE_FLYAWAY"] ELSE s1
    ELSE s

\* lines 579-600: flyaway detection, in FlyHome only
sanityFlyaway(s, i) ==
    IF s.phase = "RESCUE_FLY_HOME"
    THEN LET velocityToHomeCmS == s.previousDistanceToHomeCm - s.distanceToHomeCm
             failing == 2 * velocityToHomeCmS < s.targetVelocityCmS
             secondsFailing ==
                 constrain(s.secondsFailing + (IF failing THEN 1 ELSE -1), 0, 15)
             s1 == [s EXCEPT !.previousDistanceToHomeCm = s.distanceToHomeCm,
                             !.secondsFailing = secondsFailing]
         IN  IF secondsFailing = 15
             THEN IF cfg.USE_MAG /\ i.sensorsMag /\ cfg.useMag /\ ~s.magForceDisable
                  THEN [s1 EXCEPT !.magForceDisable = TRUE, !.secondsFailing = 0]
                  ELSE [s1 EXCEPT !.failure = "RESCUE_FLYAWAY"]
             ELSE s1
    ELSE s

\* lines 602-607: minimum satellite detection
\* a variant that counts the seconds of low satellites without a ceiling
sanityLowSatsNoLimit(s, i) ==
    LET secondsLowSats ==
            fmaxf(s.secondsLowSats
                    + (IF ~i.fix \/ i.numSat < GPS_MIN_SAT_COUNT THEN 1 ELSE -1),
                  0)
        s1 == [s EXCEPT !.secondsLowSats = secondsLowSats]
    IN  IF secondsLowSats = 10 THEN [s1 EXCEPT !.failure = "RESCUE_LOWSATS"] ELSE s1

sanityLowSats(s, i) ==
    LET secondsLowSats ==
            constrain(s.secondsLowSats
                        + (IF ~i.fix \/ i.numSat < GPS_MIN_SAT_COUNT THEN 1 ELSE -1),
                      0, 10)
        s1 == [s EXCEPT !.secondsLowSats = secondsLowSats]
    IN  IF secondsLowSats = 10 THEN [s1 EXCEPT !.failure = "RESCUE_LOWSATS"] ELSE s1

\* ratio > 0.5f for ratio = actualAltitudeChange / targetAltitudeChange (IEEE:
\* x/0 is an infinity of the sign of x, 0/0 is NaN and compares false)
ratioAboveHalf(actualAltitudeChange, targetAltitudeChange) ==
    IF targetAltitudeChange = 0 THEN actualAltitudeChange > 0
    ELSE IF targetAltitudeChange > 0
         THEN 2 * actualAltitudeChange > targetAltitudeChange
         ELSE 2 * actualAltitudeChange < targetAltitudeChange

\* a variant that sends a stuck climb or descent to Landing and keeps the count
sanityStuckKeepCount(s) ==
    LET ratioOk == ratioAboveHalf(s.currentAltitudeCm - s.prevAltitudeCm,
                                  s.targetAltitudeCm - s.prevTargetAltitudeCm)
        s1 == [s EXCEPT !.prevAltitudeCm = s.currentAltitudeCm,
                        !.prevTargetAltitudeCm = s.targetAltitudeCm]
        counted == constrain(s.secondsFailing + (IF ratioOk THEN -1 ELSE 1), 0, 10)
    IN  CASE s.phase = "RESCUE_LANDING" ->
                [s1 EXCEPT !.secondsFailing = counted,
                           !.phase = IF counted = 10 THEN "RESCUE_ABORT" ELSE @]
          [] s.phase \in {"RESCUE_ATTAIN_ALT", "RESCUE_DESCENT"} ->
                [s1 EXCEPT !.secondsFailing = counted,
                           !.phase = IF counted = 10 THEN "RESCUE_LANDING" ELSE @]
          [] s.phase = "RESCUE_DO_NOTHING" ->
                [s1 EXCEPT !.secondsDoingNothing = MIN(@ + 1, 20),
                           !.phase = IF s.secondsDoingNothing >= 19 THEN "RESCUE_ABORT" ELSE @]
          [] OTHER -> s1

\* a variant that counts the seconds of doing nothing and never ends them
sanityStuckNoLimit(s) ==
    IF s.phase = "RESCUE_DO_NOTHING"
    THEN [s EXCEPT !.prevAltitudeCm = s.currentAltitudeCm,
                   !.prevTargetAltitudeCm = s.targetAltitudeCm,
                   !.secondsDoingNothing = MIN(@ + 1, 20)]
    ELSE [s EXCEPT !.prevAltitudeCm = s.currentAltitudeCm,
                   !.prevTargetAltitudeCm = s.targetAltitudeCm]

\* lines 610-647: stuck climb / descent, and the limit on doing nothing
sanityStuck(s) ==
    LET ratioOk == ratioAboveHalf(s.currentAltitudeCm - s.prevAltitudeCm,
                                  s.targetAltitudeCm - s.prevTargetAltitudeCm)
        s1 == [s EXCEPT !.prevAltitudeCm = s.currentAltitudeCm,
                        !.prevTargetAltitudeCm = s.targetAltitudeCm]
        counted == constrain(s.secondsFailing + (IF ratioOk THEN -1 ELSE 1), 0, 10)
        idle == MIN(s.secondsDoingNothing + 1, 20)
    IN  CASE s.phase = "RESCUE_LANDING" ->
                [s1 EXCEPT !.secondsFailing = counted,
                           !.phase = IF counted = 10 THEN "RESCUE_ABORT" ELSE @]
          [] s.phase \in {"RESCUE_ATTAIN_ALT", "RESCUE_DESCENT"} ->
                IF counted = 10
                THEN [s1 EXCEPT !.phase = "RESCUE_LANDING", !.secondsFailing = 0]
                ELSE [s1 EXCEPT !.secondsFailing = counted]
          [] s.phase = "RESCUE_DO_NOTHING" ->
                [s1 EXCEPT !.secondsDoingNothing = idle,
                           !.phase = IF idle = 20 THEN "RESCUE_ABORT" ELSE @]
          [] OTHER -> s1

\* lines 572-577 and below: the checks made at 1 Hz; rs.passDistanceCm keeps
\* the distance to home seen by the last pass
sanityOneHz(s, i) ==
    IF s.sanityDTime < OneSecondUs
    THEN s
    ELSE [sanityStuck(sanityLowSats(sanityFlyaway([s EXCEPT !.sanityDTime = 0], i), i))
             EXCEPT !.passDistanceCm = s.distanceToHomeCm]

\* what one call of the supervisor saw and decided (kept for the last update)
sanityRecord(s0, s1, s2, i) ==
    [phase |-> s0.phase, failure |-> s0.failure,
     escalated |-> s1.phase,
     crash |-> i.crashRecoveryModeActive,
     oneHz |-> s2.sanityDTime >= OneSecondUs,
     passPhase |-> s2.phase,
     secondsFailing |-> s2.secondsFailing,
     previousDistanceToHomeCm |-> s2.previousDistanceToHomeCm,
     passDistanceCm |-> s2.passDistanceCm,
     magForceDisable |-> s2.magForceDisable,
     passFailure |-> s2.failure,
     secondsLowSats |-> s2.secondsLowSats,
     secondsDoingNothing |-> s2.secondsDoingNothing,
     prevAltitudeCm |-> s2.prevAltitudeCm,
     prevTargetAltitudeCm |-> s2.prevTargetAltitudeCm]

performSanityChecks(s, i) ==
    IF s.phase = "RESCUE_IDLE"
    THEN [s EXCEPT !.failure = "RESCUE_HEALTHY"]
    ELSE LET s0 == sanityInitialize(s)
             s1 == sanityEscalation(s0, i)
             s2 == sanityGpsHealth(sanityCrashFlip(s1, i))
             s3 == sanityOneHz(s2, i)
         IN  [s3 EXCEPT !.sanityLog = Append(@, sanityRecord(s0, s1, s2, i))]

---------------------------------------------------------------------------
(* sensorUpdate: sensor ingestion *)

\* lines 674-678: acceleration magnitude, refreshed in Landing only
accMagnitudeOf(accADC) ==
    Quot(sqrtf((accADC.Z - cfg.acc_1G) * (accADC.Z - cfg.acc_1G)
                 + accADC.X * accADC.X + accADC.Y * accADC.Y) * 10,
         cfg.acc_1G)

\* a variant that leaves the heading error as subtracted
errorAngleOfUnwrapped(yaw, directionToHome) == yaw - directionToHome

\* lines 680-688: heading error, wrapped once
errorAngleOf(yaw, directionToHome) ==
    LET e == yaw - directionToHome
    IN  IF e <= -1800 THEN e + 3600 ELSE IF e > 1800 THEN e - 3600 ELSE e

sensorUpdate(s, i) ==
    LET errorAngle == errorAngleOf(i.attitudeYaw, i.GPS_directionToHome)
        s1 == [s EXCEPT
                 !.altitudeDataIntervalSeconds = i.dtUs \div 1000,
                 !.currentAltitudeCm = i.getAltitude,
                 !.healthy = i.gpsIsHealthy,
                 !.accMagnitude = IF s.phase = "RESCUE_LANDING"
                                  THEN accMagnitudeOf(i.accADC) ELSE @,
                 !.directionToHome = i.GPS_directionToHome,
                 !.errorAngle = errorAngle,
                 !.absErrorAngle = Abs(errorAngle)]
    IN  IF ~s.newGPSData
        THEN s1
        ELSE [s1 EXCEPT
                 !.distanceToHomeCm = i.GPS_distanceToHomeCm,
                 !.distanceToHomeM = i.GPS_distanceToHomeCm,
                 !.groundSpeedCmS = i.groundSpeed,
                 !.gpsDataIntervalSeconds = i.getGpsDataIntervalSeconds,
                 !.velocityToHomeCmS =
                     Quot((s.prevDistanceToHomeCm - i.GPS_distanceToHomeCm) * 1000,
                          i.getGpsDataIntervalSeconds),
                 !.prevDistanceToHomeCm = i.GPS_distanceToHomeCm]

---------------------------------------------------------------------------
(* checkGPSRescueIsAvailable: the OSD warning *)

\* a variant that evaluates the latches in every update
checkGPSRescueIsAvailableEveryTick(s, i) ==
    IF ~i.gpsIsHealthy \/ ~i.fixHome
    THEN [s EXCEPT !.isAvailable = FALSE]
    ELSE LET secondsLowSats ==
                 constrain(s.availSecondsLowSats
                             + (IF i.numSat < GPS_MIN_SAT_COUNT THEN 1 ELSE -1), 0, 2)
         IN  [s EXCEPT !.availDTime = 0,
                       !.noGPSfix = ~i.fix,
                       !.availSecondsLowSats = secondsLowSats,
                       !.lowsats = (secondsLowSats = 2),
                       !.isAvailable = i.fix /\ secondsLowSats # 2]

checkGPSRescueIsAvailable(s, i) ==
    IF ~i.gpsIsHealthy \/ ~i.fixHome
    THEN [s EXCEPT !.isAvailable = FALSE]
    ELSE IF s.availDTime < OneSecondUs
         THEN [s EXCEPT !.isAvailable = ~(s.noGPSfix \/ s.lowsats)]
         ELSE LET secondsLowSats ==
                      constrain(s.availSecondsLowSats
                                  + (IF i.numSat < GPS_MIN_SAT_COUNT THEN 1 ELSE -1), 0, 2)
              IN  [s EXCEPT !.availDTime = 0,
                            !.noGPSfix = ~i.fix,
                            !.availSecondsLowSats = secondsLowSats,
                            !.lowsats = (secondsLowSats = 2),
                            !.isAvailable = i.fix /\ secondsLowSats # 2]

---------------------------------------------------------------------------
(* disarmOnImpact, descend *)

\* a variant that disarms on impact and lets the rescue go on
disarmOnImpactGoOn(s) ==
    IF s.accMagnitude > s.disarmThreshold
    THEN disarm(s, "DISARM_REASON_GPS_RESCUE")
    ELSE s

disarmOnImpact(s) ==
    IF s.accMagnitude > s.disarmThreshold
    THEN rescueStop(disarm(s, "DISARM_REASON_GPS_RESCUE"))
    ELSE s

\* lines 771-782: the approach profile, refreshed with new GPS data
descendApproach(s) ==
    IF s.newGPSData
    THEN LET distanceToLandingAreaM == s.distanceToHomeM - Quot(s.targetLandingAltitudeCm, 2)
             proximity == constrainRatio(distanceToLandingAreaM, s.descentDistanceM)
         IN  [s EXCEPT
                 !.proximityToLandingArea = proximity,
                 !.targetVelocityCmS = Quot(cfg.rescueGroundspeed * proximity, 1000),
                 !.rollAngleLimitDeg = Quot(cfg.maxRescueAngle * 100 * proximity, 1000)]
    ELSE s

descend(s) ==
    LET s1 == descendApproach(s)
        step0 == -Quot(s1.altitudeDataIntervalSeconds * cfg.descendRate, 1000)
        \* descentAttenuator = returnAltitudeCm / 2000 is below 1
        step == IF s1.returnAltitudeCm < 2000
                THEN Quot(step0 * s1.returnAltitudeCm, 2000) ELSE step0
        descentRateModifier == constrain(Quot(s1.targetAltitudeCm * 1000, 5000), 0, 1000)
    IN  [s1 EXCEPT
            !.altitudeStep = step,
            !.descentRateModifier = descentRateModifier,
            !.targetAltitudeCm = @ + Quot(step * (1000 + 2 * descentRateModifier), 1000)]

---------------------------------------------------------------------------
(* gpsRescueUpdate: the phase machine *)

\* a variant whose landing starts at the current altitude and keeps the
\* pitch limit of the rescue before
phaseInitializeLevelOff(s, i) ==
    LET s1 == [s EXCEPT !.targetLandingAltitudeCm = 100 * cfg.targetLandingAltitudeM]
    IN  IF ~i.fixHome
        THEN [s1 EXCEPT !.failure = "RESCUE_NO_HOME_POINT"]
        ELSE IF s1.distanceToHomeM < cfg.minRescueDth * 100
        THEN IF s1.distanceToHomeM < 500
                /\ s1.currentAltitudeCm < s1.targetLandingAltitudeCm
             THEN [s1 EXCEPT !.phase = "RESCUE_ABORT"]
             ELSE [s1 EXCEPT !.targetVelocityCmS = 0,
                             !.rollAngleLimitDeg = 0,
                             !.proximityToLandingArea = 0,
                             !.targetAltitudeCm = s1.currentAltitudeCm,
                             !.phase = "RESCUE_LANDING"]
        ELSE [s1 EXCEPT !.phase = "RESCUE_ATTAIN_ALT",
                        !.secondsFailing = 0,
                        !.initialAltitudeLow = s1.currentAltitudeCm < s1.returnAltitudeCm,
                        !.yawAttenuator = 0,
                        !.targetVelocityCmS = s1.velocityToHomeCmS,
                        !.pitchAngleLimitDeg = 0,
                        !.rollAngleLimitDeg = 0,
                        !.altitudeStep = 0,
                        !.descentRateModifier = 0,
                        !.proximityToLandingArea = 0,
                        !.velocityItermRelax = 0]

\* case RESCUE_INITIALIZE, lines 826-863
phaseInitialize(s, i) ==
    LET s1 == [s EXCEPT !.targetLandingAltitudeCm = 100 * cfg.targetLandingAltitudeM]
        altitudeStep == -Quot(s.altitudeDataIntervalSeconds * cfg.descendRate, 1000)
    IN  IF ~i.fixHome
        THEN [s1 EXCEPT !.failure = "RESCUE_NO_HOME_POINT"]
        ELSE IF s1.distanceToHomeM < cfg.minRescueDth * 100
        THEN IF s1.distanceToHomeM < 500
                /\ s1.currentAltitudeCm < s1.targetLandingAltitudeCm
             THEN [s1 EXCEPT !.phase = "RESCUE_ABORT"]
             ELSE [s1 EXCEPT !.altitudeStep = altitudeStep,
                             !.targetVelocityCmS = 0,
                             !.pitchAngleLimitDeg = 0,
                             !.rollAngleLimitDeg = 0,
                             !.proximityToLandingArea = 0,
                             !.targetAltitudeCm = s1.currentAltitudeCm + altitudeStep,
                             !.phase = "RESCUE_LANDING"]
        ELSE [s1 EXCEPT !.phase = "RESCUE_ATTAIN_ALT",
                        !.secondsFailing = 0,
                        !.initialAltitudeLow = s1.currentAltitudeCm < s1.returnAltitudeCm,
                        !.yawAttenuator = 0,
                        !.targetVelocityCmS = s1.velocityToHomeCmS,
                        !.pitchAngleLimitDeg = 0,
                        !.rollAngleLimitDeg = 0,
                        !.altitudeStep = 0,
                        !.descentRateModifier = 0,
                        !.proximityToLandingArea = 0,
                        !.velocityItermRelax = 0]

\* a variant that moves on to Rotate with the target altitude where the
\* climb left it
phaseAttainAltNoSnap(s) ==
    LET altitudeStep ==
            Quot((IF s.initialAltitudeLow THEN cfg.ascendRate ELSE -cfg.descendRate)
                   * s.gpsRescueTaskIntervalSeconds, 1000)
        currentAltitudeLow == s.currentAltitudeCm < s.returnAltitudeCm
        s1 == IF s.initialAltitudeLow = currentAltitudeLow
              THEN [s EXCEPT !.altitudeStep = altitudeStep,
                             !.targetAltitudeCm = @ + altitudeStep]
              ELSE [s EXCEPT !.altitudeStep = 0,
                             !.phase = "RESCUE_ROTATE"]
    IN  [s1 EXCEPT !.targetVelocityCmS = s.velocityToHomeCmS]

\* case RESCUE_ATTAIN_ALT, lines 865-883
phaseAttainAlt(s) ==
    LET altitudeStep ==
            Quot((IF s.initialAltitudeLow THEN cfg.ascendRate ELSE -cfg.descendRate)
                   * s.gpsRescueTaskIntervalSeconds, 1000)
        currentAltitudeLow == s.currentAltitudeCm < s.returnAltitudeCm
        s1 == IF s.initialAltitudeLow = currentAltitudeLow
              THEN [s EXCEPT !.altitudeStep = altitudeStep,
                             !.targetAltitudeCm = @ + altitudeStep]
              ELSE [s EXCEPT !.targetAltitudeCm = s.returnAltitudeCm,
                             !.altitudeStep = 0,
                             !.phase = "RESCUE_ROTATE"]
    IN  [s1 EXCEPT !.targetVelocityCmS = s.velocityToHomeCmS]

\* the yaw authority ramp of Rotate and FlyHome
rampYawAttenuator(s) ==
    IF s.yawAttenuator < 1000
    THEN [s EXCEPT !.yawAttenuator = @ + s.gpsRescueTaskIntervalSeconds]
    ELSE s

\* a variant that goes back to the climb once the craft points home
phaseRotateClimbAgain(s) ==
    LET s1 == rampYawAttenuator(s)
        s2 == IF s1.absErrorAngle < 300
              THEN [s1 EXCEPT !.phase = "RESCUE_ATTAIN_ALT", !.secondsFailing = 0]
              ELSE s1
    IN  [s2 EXCEPT !.initialVelocityLow = s.velocityToHomeCmS < cfg.rescueGroundspeed,
                   !.targetVelocityCmS = s.velocityToHomeCmS]

\* case RESCUE_ROTATE, lines 885-897
phaseRotate(s) ==
    LET s1 == rampYawAttenuator(s)
        s2 == IF s1.absErrorAngle < 300
              THEN [s1 EXCEPT !.pitchAngleLimitDeg = cfg.maxRescueAngle * 100,
                              !.phase = "RESCUE_FLY_HOME",
                              !.secondsFailing = 0,
                              !.proximityToLandingArea = 1000]
              ELSE s1
    IN  [s2 EXCEPT !.initialVelocityLow = s.velocityToHomeCmS < cfg.rescueGroundspeed,
                   !.targetVelocityCmS = s.velocityToHomeCmS]

\* a variant that starts the descent on the held distance, packet or not
phaseFlyHomeAnyTick(s) ==
    LET s1 == rampYawAttenuator(s)
        targetVelocityError == cfg.rescueGroundspeed - s1.targetVelocityCmS
        velocityTargetStep == Quot(s.gpsRescueTaskIntervalSeconds * targetVelocityError, 1000)
        targetVelocityIsLow == s1.targetVelocityCmS < cfg.rescueGroundspeed
        velocityItermRelax ==
            s1.velocityItermRelax
              + Quot(s.gpsRescueTaskIntervalSeconds * (1000 - s1.velocityItermRelax), 2000)
        s2 == [s1 EXCEPT
                 !.targetVelocityCmS = IF s1.initialVelocityLow = targetVelocityIsLow
                                       THEN @ + velocityTargetStep ELSE @,
                 !.velocityItermRelax = velocityItermRelax,
                 !.rollAngleLimitDeg = Quot(velocityItermRelax * cfg.maxRescueAngle * 100, 2000)]
    IN  IF s2.distanceToHomeM <= s2.descentDistanceM
        THEN [s2 EXCEPT !.phase = "RESCUE_DESCENT", !.secondsFailing = 0]
        ELSE s2

\* case RESCUE_FLY_HOME, lines 899-931
phaseFlyHome(s) ==
    LET s1 == rampYawAttenuator(s)
        targetVelocityError == cfg.rescueGroundspeed - s1.targetVelocityCmS
        velocityTargetStep == Quot(s.gpsRescueTaskIntervalSeconds * targetVelocityError, 1000)
        targetVelocityIsLow == s1.targetVelocityCmS < cfg.rescueGroundspeed
        velocityItermRelax ==
            s1.velocityItermRelax
              + Quot(s.gpsRescueTaskIntervalSeconds * (1000 - s1.velocityItermRelax), 2000)
        s2 == [s1 EXCEPT
                 !.targetVelocityCmS = IF s1.initialVelocityLow = targetVelocityIsLow
                                       THEN @ + velocityTargetStep ELSE @,
                 !.velocityItermRelax = velocityItermRelax,
                 !.rollAngleLimitDeg = Quot(velocityItermRelax * cfg.maxRescueAngle * 100, 2000)]
    IN  IF s2.newGPSData /\ s2.distanceToHomeM <= s2.descentDistanceM
        THEN [s2 EXCEPT !.phase = "RESCUE_DESCENT", !.secondsFailing = 0]
        ELSE s2

\* case RESCUE_DESCENT, lines 933-941
phaseDescent(s) ==
    descend(IF s.currentAltitudeCm < s.targetLandingAltitudeCm
            THEN [s EXCEPT !.phase = "RESCUE_LANDING", !.secondsFailing = 0]
            ELSE s)

\* case RESCUE_LANDING, lines 943-949
phaseLanding(s) == disarmOnImpact(descend(s))

\* a variant that stops the rescue and leaves the craft armed
phaseAbortArmed(s) == rescueStop([s EXCEPT !.secondsFailing = 0])

\* case RESCUE_ABORT, lines 955-960
phaseAbort(s) ==
    rescueStop([disarm(s, "DISARM_REASON_FAILSAFE") EXCEPT !.secondsFailing = 0])

\* the switch of lines 817-968; rs.stepPhase keeps the phase it ran in
phaseMachine(s, i) ==
    LET s1 == [s EXCEPT !.stepPhase = s.phase]
    IN  CASE s.phase = "RESCUE_IDLE" -> setReturnAltitude(s1, i)
          [] s.phase = "RESCUE_INITIALIZE" -> phaseInitialize(s1, i)
          [] s.phase = "RESCUE_ATTAIN_ALT" -> phaseAttainAlt(s1)
          [] s.phase = "RESCUE_ROTATE" -> phaseRotate(s1)
          [] s.phase = "RESCUE_FLY_HOME" -> phaseFlyHome(s1)
          [] s.phase = "RESCUE_DESCENT" -> phaseDescent(s1)
          [] s.phase = "RESCUE_LANDING" -> phaseLanding(s1)
          [] s.phase = "RESCUE_COMPLETE" -> rescueStop(s1)
          [] s.phase = "RESCUE_ABORT" -> phaseAbort(s1)
          [] s.phase = "RESCUE_DO_NOTHING" -> disarmOnImpact(s1)
          [] OTHER -> s1

\* a variant that only starts rescues and ignores a cleared mode flag
startOnly(s, i) ==
    IF i.FLIGHT_MODE_GPS_RESCUE /\ s.phase = "RESCUE_IDLE"
    THEN [s EXCEPT !.phase = "RESCUE_INITIALIZE", !.rescues = @ + 1]
    ELSE s

\* lines 801-807: cancel, or start a rescue and seed the statics
startOrStop(s, i) ==
    IF ~i.FLIGHT_MODE_GPS_RESCUE
    THEN rescueStop(s)
    ELSE IF s.phase = "RESCUE_IDLE"
         THEN performSanityChecks(rescueAttainPosition(rescueStart(s), i), i)
         ELSE s

\* micros() has advanced by i.dtUs since the previous update; the two 1 Hz
\* gates only compare the elapsed time with one second
clockAdvance(s, i) ==
    [s EXCEPT !.sanityDTime = MIN(@ + i.dtUs, OneSecondUs),
              !.availDTime = MIN(@ + i.dtUs, OneSecondUs),
              !.disarmLog = << >>,
              !.sanityLog = << >>]

\* lines 801-815: what an update does before its phase-machine step
updateIntake(s, i) ==
    checkGPSRescueIsAvailable(sensorUpdate(startOrStop(clockAdvance(s, i), i), i), i)

gpsRescueUpdate(s, i) ==
    LET s2 == updateIntake(s, i)
        s3 == phaseMachine(s2, i)
        s4 == rescueAttainPosition(performSanityChecks(s3, i), i)
    IN  [s4 EXCEPT !.newGPSData = FALSE]

\* gpsRescueNewGpsData
gpsRescueNewGpsData(s) == [s EXCEPT !.newGPSData = TRUE]

\* the places of gpsRescueUpdate at which a call of gpsRescueNewGpsData made
\* from another context changes what the rest of the update reads: after the
\* test of line 690, after the switch (before the test of line 452), and
\* after that test (before the clear of line 977)
PreemptionPoints == {"after sensorUpdate", "after the switch", "before the clear"}

\* gpsRescueUpdate with gpsRescueNewGpsData called at the point `at`;
\* newGPSData is a plain static bool, tested at lines 690, 319, 925, 771 and
\* 452, and cleared at 977 whatever its value
gpsRescueUpdatePreempted(s, i, at) ==
    LET s2 == updateIntake(s, i)
        a2 == IF at = "after sensorUpdate" THEN gpsRescueNewGpsData(s2) ELSE s2
        s3 == phaseMachine(a2, i)
        a3 == IF at = "after the switch" THEN gpsRescueNewGpsData(s3) ELSE s3
        s4 == rescueAttainPosition(performSanityChecks(a3, i), i)
    IN  [s4 EXCEPT !.newGPSData = FALSE]

---------------------------------------------------------------------------
(* Configuration and collaborator inputs explored by the model *)

\* one setting of gpsRescueConfig(), gpsConfig(), rcControlsConfig(), the
\* accelerometer scale and the USE_MAG build option
Config(sanityChecks, allowArmingWithoutFix, useMag) ==
    [sanityChecks |-> sanityChecks,
     allowArmingWithoutFix |-> allowArmingWithoutFix,
     useMag |-> useMag,
     USE_MAG |-> TRUE,
     altitudeMode |-> "GPS_RESCUE_ALT_MODE_FIXED",
     gps_set_home_point_once |-> FALSE,
     yaw_control_reversed |-> FALSE,
     initialAltitudeM |-> 5,
     rescueAltitudeBufferM |-> 2,
     targetLandingAltitudeM |-> 1,
     minRescueDth |-> 20,
     descentDistanceM |-> 20,
     rescueGroundspeed |-> 1000,
     maxRescueAngle |-> 32,
     ascendRate |-> 500,
     descendRate |-> 150,
     disarmThreshold |-> 20,
     throttleMin |-> 1100,
     throttleMax |-> 1700,
     throttleHover |-> 1275,
     throttleP |-> 15,
     throttleI |-> 15,
     throttleD |-> 15,
     velP |-> 8,
     velI |-> 40,
     yawP |-> 20,
     rollMix |-> 150,
     acc_1G |-> 16]

SanityModes == {"RESCUE_SANITY_OFF", "RESCUE_SANITY_ON", "RESCUE_SANITY_FS_ONLY"}

\* the legs of a flight, by what altitude, distance, heading and throttle stick
\* the collaborators report: 1 low and far out, 2 climbed, 3 turned to home,
\* 4 high inside the descent distance, 5 on the ground beside home
Legs ==
    <<[getAltitude |-> 50,  GPS_distanceToHomeCm |-> 10000, attitudeYaw |-> 900, rcCommandThrottle |-> 1500],
      [getAltitude |-> 800, GPS_distanceToHomeCm |-> 10000, attitudeYaw |-> 900, rcCommandThrottle |-> 1500],
      [getAltitude |-> 800, GPS_distanceToHomeCm |-> 10000, attitudeYaw |-> 0,   rcCommandThrottle |-> 1500],
      [getAltitude |-> 800, GPS_distanceToHomeCm |-> 1000,  attitudeYaw |-> 0,   rcCommandThrottle |-> 1500],
      [getAltitude |-> 50,  GPS_distanceToHomeCm |-> 300,   attitudeYaw |-> 0,   rcCommandThrottle |-> 1000]>>

LegIds == 1..Len(Legs)

\* what the mode arbiter, GPS driver, crash detector and accelerometer report
\* to one update
Condition(mode, healthy, home, crash, accZ) ==
    [FLIGHT_MODE_GPS_RESCUE |-> mode, gpsIsHealthy |-> healthy, fixHome |-> home,
     crashRecoveryModeActive |-> crash, accADC |-> [X |-> 0, Y |-> 0, Z |-> accZ]]

ModeOn == Condition(TRUE, TRUE, TRUE, FALSE, 16)

ModeOff == Condition(FALSE, TRUE, TRUE, FALSE, 16)

Conditions ==
    {ModeOn, ModeOff,
     Condition(FALSE, FALSE, TRUE,  FALSE, 16),
     Condition(TRUE,  FALSE, TRUE,  FALSE, 16),
     Condition(TRUE,  TRUE,  TRUE,  TRUE,  16),
     Condition(TRUE,  FALSE, TRUE,  TRUE,  16),
     Condition(TRUE,  TRUE,  FALSE, FALSE, 16),
     Condition(TRUE,  TRUE,  TRUE,  FALSE, 56)}

\* the time since the previous update: one task interval
TaskIntervalUs == OneSecondUs \div TaskRateHz

\* one update's view of its collaborators, the craft being on leg k
Collaborate(k, c, rx, dt, fix, numSat) ==
    [leg |-> k,
     FLIGHT_MODE_GPS_RESCUE |-> c.FLIGHT_MODE_GPS_RESCUE,
     armed |-> TRUE,
     gpsIsHealthy |-> c.gpsIsHealthy,
     fixHome |-> c.fixHome,
     fix |-> fix,
     numSat |-> numSat,
     sensorsMag |-> TRUE,
     crashRecoveryModeActive |-> c.crashRecoveryModeActive,
     rxIsReceivingSignal |-> rx,
     getAltitude |-> Legs[k].getAltitude,
     GPS_distanceToHomeCm |-> Legs[k].GPS_distanceToHomeCm,
     GPS_directionToHome |-> 0,
     attitudeYaw |-> Legs[k].attitudeYaw,
     groundSpeed |-> 0,
     getGpsDataIntervalSeconds |-> 1000,
     accADC |-> c.accADC,
     rcCommandThrottle |-> Legs[k].rcCommandThrottle,
     cosTiltAngle |-> 1000,
     throttleDLpfOut |-> 0,
     velocityDLpfOut |-> 0,
     velocityUpsampleLpfOut |-> 500,
     dtUs |-> dt]

\* a quiet craft on the ground: what the collaborators return before the
\* first update
Quiet ==
    [Collaborate(5, ModeOff, TRUE, TaskIntervalUs, TRUE, 8)
         EXCEPT !.velocityUpsampleLpfOut = 0]

---------------------------------------------------------------------------
(* The state after boot: zero-initialised statics, gpsRescueInit *)

rescueStateInit ==
    [phase |-> "RESCUE_IDLE", failure |-> "RESCUE_HEALTHY", isAvailable |-> FALSE,
     \* rescueState.sensor
     currentAltitudeCm |-> 0, distanceToHomeCm |-> 0, distanceToHomeM |-> 0,
     groundSpeedCmS |-> 0, directionToHome |-> 0, accMagnitude |-> 0,
     healthy |-> FALSE, errorAngle |-> 0, absErrorAngle |-> 0,
     gpsDataIntervalSeconds |-> 0, altitudeDataIntervalSeconds |-> 0,
     velocityToHomeCmS |-> 0,
     \* rescueState.intent
     maxAltitudeCm |-> 0, returnAltitudeCm |-> 0, targetAltitudeCm |-> 0,
     targetLandingAltitudeCm |-> 0, targetVelocityCmS |-> 0,
     pitchAngleLimitDeg |-> 0, rollAngleLimitDeg |-> 0, descentDistanceM |-> 0,
     secondsFailing |-> 0, altitudeStep |-> 0, descentRateModifier |-> 0,
     yawAttenuator |-> 0, disarmThreshold |-> 0, proximityToLandingArea |-> 0,
     velocityItermRelax |-> 0,
     \* set by gpsRescueInit, line 271
     gpsRescueTaskIntervalSeconds |-> gpsRescueTaskIntervalSeconds,
     \* file-scope variables
     rescueThrottle |-> 0, rescueYaw |-> 0,
     gpsRescueAngle |-> [AI_PITCH |-> 0, AI_ROLL |-> 0],
     magForceDisable |-> FALSE, newGPSData |-> FALSE,
     \* statics of rescueAttainPosition
     previousVelocityError |-> 0, velocityI |-> 0, throttleI |-> 0,
     previousAltitudeError |-> 0, throttleAdjustment |-> 0, pitchAdjustment |-> 0,
     \* statics of performSanityChecks (sanityDTime: micros() - previousTimeUs)
     sanityDTime |-> 0, prevAltitudeCm |-> 0, prevTargetAltitudeCm |-> 0,
     previousDistanceToHomeCm |-> 0, secondsLowSats |-> 0, secondsDoingNothing |-> 0,
     passDistanceCm |-> 0,
     \* statics of sensorUpdate
     prevDistanceToHomeCm |-> 0,
     \* statics of checkGPSRescueIsAvailable (availDTime: micros() - previousTimeUs)
     availDTime |-> 0, availSecondsLowSats |-> 0, lowsats |-> FALSE, noGPSfix |-> FALSE,
     \* statics of gpsRescueUpdate
     initialAltitudeLow |-> TRUE, initialVelocityLow |-> TRUE,
     \* the arming layer, and what the last update did
     armingDisabled |-> FALSE, disarmLog |-> << >>, sanityLog |-> << >>,
     stepPhase |-> "RESCUE_IDLE", rescues |-> 0]

\* the values of the state an update starts from that the properties refer to
Snapshot(s) ==
    [phase |-> s.phase, failure |-> s.failure,
     velocityI |-> s.velocityI, throttleI |-> s.throttleI,
     secondsFailing |-> s.secondsFailing, newGPSData |-> s.newGPSData,
     healthy |-> s.healthy, rescueThrottle |-> s.rescueThrottle,
     pitch |-> s.gpsRescueAngle.AI_PITCH,
     \* whether the last update was given the inputs of the one before it
     repeat |-> FALSE]

---------------------------------------------------------------------------
(* Actions *)

\* one run of the rescue task, explored while |targetAltitudeCm| <= maxAltitudeCm
UpdateWithin(i, maxAltitudeCm) ==
    /\ LET n == gpsRescueUpdate(rs, i)
       IN  /\ Abs(n.targetAltitudeCm) <= maxAltitudeCm
           /\ rs' = n
    /\ in' = i
    /\ prev' = [Snapshot(rs) EXCEPT !.repeat = (op = "gpsRescueUpdate" /\ i = in)]
    /\ op' = "gpsRescueUpdate"
    /\ UNCHANGED cfg

Update(i) == UpdateWithin(i, MaxTargetAltitudeCm)

\* the GPS driver announces a new packet
NewGpsData ==
    /\ rs' = gpsRescueNewGpsData(rs)
    /\ UNCHANGED <<cfg, in, prev, op>>

InitWith(configs) ==
    /\ rs = rescueStateInit
    /\ cfg \in configs
    /\ in = Quiet
    /\ prev = Snapshot(rescueStateInit)
    /\ op = "boot"
    /\ faults = 0

---------------------------------------------------------------------------
(* The flights explored: the craft follows the rescue from leg to leg, a   *)
(* GPS packet arrives before each update, and at most MaxFaults updates    *)
(* see something else: a cancelled rescue, an unhealthy GPS, a missing     *)
(* home fix, a crash, an impact or a missed packet. The control link may   *)
(* drop while no rescue is running, as it does when a failsafe starts the  *)
(* rescue, and then stays down.                                            *)

\* the leg each phase steers the craft to
Wants(phase) ==
    CASE phase = "RESCUE_ATTAIN_ALT" -> 2
      [] phase = "RESCUE_ROTATE" -> 3
      [] phase = "RESCUE_FLY_HOME" -> 4
      [] phase \in {"RESCUE_DESCENT", "RESCUE_LANDING"} -> 5
      [] OTHER -> 0

NextLeg == IF Wants(rs.phase) > in.leg THEN in.leg + 1 ELSE in.leg

\* conditions that use up none of the fault budget
Nominal(c) == c = ModeOn \/ (c = ModeOff /\ rs.phase = "RESCUE_IDLE")

\* the last of `rescues` rescues is over and Idle has run once since
Over(rescues) ==
    rs.rescues = rescues /\ rs.phase = "RESCUE_IDLE" /\ prev.phase = "RESCUE_IDLE"

FaultsOf(c) == (IF Nominal(c) THEN 0 ELSE 1) + (IF rs.newGPSData THEN 0 ELSE 1)

\* one update of a flight of at most `rescues` rescues and `budget` faults
FlyWithin(k, c, rx, rescues, budget) ==
    /\ ~Over(rescues)
    /\ op = "boot" \/ k = NextLeg
    /\ rx = in.rxIsReceivingSignal \/ (~rx /\ rs.phase = "RESCUE_IDLE")
    /\ faults + FaultsOf(c) <= budget
    /\ faults' = faults + FaultsOf(c)
    /\ Update(Collaborate(k, c, rx, TaskIntervalUs, TRUE, 8))
    /\ rs'.rescues <= rescues

Fly(k, c, rx) == FlyWithin(k, c, rx, MaxRescues, MaxFaults)

GpsPacket == ~rs.newGPSData /\ NewGpsData /\ UNCHANGED faults

Init == InitWith({Config(m, a, TRUE) : m \in SanityModes, a \in BOOLEAN})

Next == (\E k \in LegIds, c \in Conditions, rx \in BOOLEAN : Fly(k, c, rx)) \/ GpsPacket

Spec == Init /\ [][Next]_vars

---------------------------------------------------------------------------
(* SpecNear: the flights of Spec with the descent distance configured as   *)
(* large as the distance the rescue starts from, so that the craft is      *)
(* within descentDistanceM from the moment it enters FlyHome.              *)

InitNear ==
    InitWith({[Config(m, FALSE, TRUE) EXCEPT !.descentDistanceM = 100] : m \in SanityModes})

Approach(k, c, rx) == Fly(k, c, rx)

NextNear == (\E k \in LegIds, c \in Conditions, rx \in BOOLEAN : Approach(k, c, rx)) \/ GpsPacket

SpecNear == InitNear /\ [][NextNear]_vars

---------------------------------------------------------------------------
(* SpecSats: up to MaxRescues + 1 rescues, sanity checks on or off, of a   *)
(* craft that climbs and turns but stays where it is. The receiver starts  *)
(* with enough satellites and a 3D fix, and goes from good to bad (too few *)
(* satellites, or no fix) or back at most MaxFaults + 1 times. A rescue    *)
(* ends when the supervisor aborts it, and a GPS packet arrives before     *)
(* every update.                                                           *)

InitSats ==
    InitWith({Config(m, FALSE, FALSE) : m \in {"RESCUE_SANITY_ON", "RESCUE_SANITY_OFF"}})

Dim(c, fix, low) ==
    /\ ~Over(MaxRescues + 1)
    /\ rs.newGPSData
    /\ Nominal(c)
    /\ fix \/ ~low
    /\ faults' = IF (~fix \/ low) = (faults % 2 = 1) THEN faults ELSE faults + 1
    /\ faults' <= MaxFaults + 1
    /\ LET k == IF rs.phase = "RESCUE_IDLE" THEN 1 ELSE MIN(NextLeg, 3)
           numSat == IF low THEN GPS_MIN_SAT_COUNT - 1 ELSE GPS_MIN_SAT_COUNT
       IN  Update(Collaborate(k, c, TRUE, TaskIntervalUs, fix, numSat))
    /\ rs'.rescues <= MaxRescues + 1

NextSats == (\E c \in {ModeOn, ModeOff}, fix, low \in BOOLEAN : Dim(c, fix, low)) \/ GpsPacket

SpecSats == InitSats /\ [][NextSats]_vars

---------------------------------------------------------------------------
(* SpecAltitude: one rescue in each altitude mode, with and without        *)
(* gps_set_home_point_once. Before the rescue the craft is armed or not,   *)
(* low (leg 1) or high (leg 2), and an update may find no new GPS packet;  *)
(* the rescue starts armed and then runs undisturbed.                      *)

AltitudeModes ==
    {"GPS_RESCUE_ALT_MODE_FIXED", "GPS_RESCUE_ALT_MODE_CURRENT", "GPS_RESCUE_ALT_MODE_MAX"}

InitAltitude ==
    InitWith({[Config("RESCUE_SANITY_ON", FALSE, TRUE)
                  EXCEPT !.altitudeMode = a, !.gps_set_home_point_once = h] :
                 a \in AltitudeModes, h \in BOOLEAN})

Cruise(k, c, armed) ==
    /\ ~Over(MaxRescues)
    /\ Nominal(c)
    /\ IF rs.phase = "RESCUE_IDLE"
       THEN k \in {1, 2} /\ (armed \/ c = ModeOff)
       ELSE k = NextLeg /\ armed /\ rs.newGPSData
    /\ Update([Collaborate(k, c, TRUE, TaskIntervalUs, TRUE, 8) EXCEPT !.armed = armed])
    /\ rs'.rescues <= MaxRescues
    /\ UNCHANGED faults

NextAltitude ==
    (\E k \in LegIds, c \in {ModeOn, ModeOff}, armed \in BOOLEAN : Cruise(k, c, armed))
      \/ GpsPacket

SpecAltitude == InitAltitude /\ [][NextAltitude]_vars

---------------------------------------------------------------------------
(* SpecPreempt: one undisturbed rescue in which the GPS driver announces a *)
(* packet before every update but, at most MaxFaults times, only while the *)
(* update is running, from another context.                                *)

InitPreempt == InitWith({Config("RESCUE_SANITY_ON", FALSE, TRUE)})

Run(k, c) ==
    /\ ~Over(MaxRescues)
    /\ Nominal(c)
    /\ IF op = "boot" THEN k = 1 ELSE k = NextLeg /\ rs.newGPSData
    /\ Update(Collaborate(k, c, TRUE, TaskIntervalUs, TRUE, 8))
    /\ rs'.rescues <= MaxRescues
    /\ UNCHANGED faults

Preempt(k, c, at) ==
    /\ ~Over(MaxRescues)
    /\ Nominal(c)
    /\ op # "boot" /\ k = NextLeg
    /\ ~rs.newGPSData
    /\ faults < MaxFaults
    /\ faults' = faults + 1
    /\ LET i == Collaborate(k, c, TRUE, TaskIntervalUs, TRUE, 8)
           n == gpsRescueUpdatePreempted(rs, i, at)
       IN  /\ Abs(n.targetAltitudeCm) <= MaxTargetAltitudeCm
           /\ n.rescues <= MaxRescues
           /\ rs' = n
           /\ in' = i
    /\ prev' = Snapshot(rs)
    /\ op' = at
    /\ UNCHANGED cfg

NextPreempt ==
    \/ \E k \in LegIds, c \in {ModeOn, ModeOff} : Run(k, c)
    \/ \E k \in LegIds, c \in {ModeOn, ModeOff}, at \in PreemptionPoints : Preempt(k, c, at)
    \/ GpsPacket

SpecPreempt == InitPreempt /\ [][NextPreempt]_vars

---------------------------------------------------------------------------
(* SpecFailed: flights as in Spec, from leg 1 with the control link up and *)
(* sanity checks on or off, in which the pilot does not cancel a rescue    *)
(* that has failed. Until the flight is over the GPS driver goes on        *)
(* announcing packets (weak fairness) and the scheduler goes on running    *)
(* the task, so that each announced packet is consumed in the end: only an *)
(* update clears newGPSData.                                               *)

InitFailed ==
    InitWith({Config(m, FALSE, TRUE) : m \in {"RESCUE_SANITY_ON", "RESCUE_SANITY_OFF"}})

Persist(c) ==
    /\ (rs.phase # "RESCUE_IDLE" /\ rs.failure # "RESCUE_HEALTHY") => c.FLIGHT_MODE_GPS_RESCUE
    /\ Fly(IF op = "boot" THEN 1 ELSE NextLeg, c, TRUE)

Announce == ~Over(MaxRescues) /\ GpsPacket

NextFailed == (\E c \in Conditions : Persist(c)) \/ Announce

SpecFailed ==
    InitFailed /\ [][NextFailed]_vars /\ WF_vars(Announce) /\ []<>(~rs.newGPSData)

---------------------------------------------------------------------------
(* SpecHang: up to MaxRescues + 1 rescues of a craft that stays on leg 4,  *)
(* high and inside the minimum rescue distance, and does not come down     *)
(* when the landing asks it to; the pilot may cancel at any update. A GPS  *)
(* packet arrives before every update.                                     *)

InitHang == InitWith({Config("RESCUE_SANITY_ON", FALSE, TRUE)})

Hang(c) ==
    /\ ~Over(MaxRescues + 1)
    /\ rs.newGPSData
    /\ Update(Collaborate(4, c, TRUE, TaskIntervalUs, TRUE, 8))
    /\ rs'.rescues <= MaxRescues + 1
    /\ UNCHANGED faults

NextHang == (\E c \in {ModeOn, ModeOff} : Hang(c)) \/ GpsPacket

SpecHang == InitHang /\ [][NextHang]_vars

---------------------------------------------------------------------------
(* SpecHeld: up to MaxRescues + 1 rescues of a craft that climbs, turns and *)
(* then hangs far from home, so that the velocity controller commands a     *)
(* pitch; the pilot may cancel at any update and start again, the craft is  *)
(* back low on leg 1 whenever no rescue is running, and up to MaxFaults + 1 *)
(* updates run between two GPS packets, as most updates of the 100 Hz task  *)
(* do.                                                                      *)

InitHeld == InitWith({Config("RESCUE_SANITY_OFF", FALSE, TRUE)})

Glide(k, c) ==
    /\ ~Over(MaxRescues + 1)
    /\ k = IF op = "boot" \/ rs.phase = "RESCUE_IDLE" THEN 1 ELSE MIN(NextLeg, 3)
    /\ faults' = faults + (IF rs.newGPSData THEN 0 ELSE 1)
    /\ faults' <= MaxFaults + 1
    /\ Update(Collaborate(k, c, TRUE, TaskIntervalUs, TRUE, 8))
    /\ rs'.rescues <= MaxRescues + 1

NextHeld == (\E k \in 1..3, c \in {ModeOn, ModeOff} : Glide(k, c)) \/ GpsPacket

SpecHeld == InitHeld /\ [][NextHeld]_vars

---------------------------------------------------------------------------
(* SpecValley: one rescue of a craft that has flown downhill from its      *)
(* launch point, so that getAltitude(), which is relative to the launch    *)
(* point, is negative; the rescue starts inside the minimum rescue         *)
(* distance and lands where it is, the craft holding the altitude it has  *)
(* at the first update. All three altitude modes are flown; a GPS packet   *)
(* arrives before every update.                                            *)

ValleyAltitudesCm == {-600, -200, 300}

InitValley ==
    InitWith({[Config(m, FALSE, TRUE) EXCEPT !.altitudeMode = a] :
                 m \in {"RESCUE_SANITY_ON", "RESCUE_SANITY_OFF"}, a \in AltitudeModes})

Sink(c, altitudeCm) ==
    /\ ~Over(MaxRescues)
    /\ rs.newGPSData
    /\ Nominal(c)
    /\ op = "boot" \/ altitudeCm = in.getAltitude
    /\ Update([Collaborate(4, c, TRUE, TaskIntervalUs, TRUE, 8)
                  EXCEPT !.getAltitude = altitudeCm])
    /\ rs'.rescues <= MaxRescues
    /\ UNCHANGED faults

NextValley ==
    (\E c \in {ModeOn, ModeOff}, altitudeCm \in ValleyAltitudesCm : Sink(c, altitudeCm))
      \/ GpsPacket

SpecValley == InitValley /\ [][NextValley]_vars

---------------------------------------------------------------------------
(* SpecRelaunch: flights that begin high inside the minimum rescue         *)
(* distance, with one more rescue and one more fault than Spec, so that a  *)
(* rescue can follow one that ended in a landing impact.                   *)

InitRelaunch == InitWith({Config("RESCUE_SANITY_OFF", FALSE, TRUE)})

Relaunch(k, c, rx) ==
    /\ op = "boot" => k = 4
    /\ rx
    /\ FlyWithin(k, c, rx, MaxRescues + 1, MaxFaults + 1)

NextRelaunch ==
    (\E k \in LegIds, c \in Conditions, rx \in BOOLEAN : Relaunch(k, c, rx)) \/ GpsPacket

SpecRelaunch == InitRelaunch /\ [][NextRelaunch]_vars

---------------------------------------------------------------------------
(* SpecFlyaway: a rescue started low and far out, sanity checks on, that   *)
(* climbs and turns, falling behind the phase in at most MaxFaults         *)
(* updates, but never reaches the descent distance: each update the craft  *)
(* holds its distance or closes CloseCm, at most MaxCloses times. A GPS    *)
(* packet arrives before every update.                                     *)

InitFlyaway == InitWith({Config("RESCUE_SANITY_ON", FALSE, u) : u \in BOOLEAN})

Drift(k, d, c) ==
    /\ ~Over(MaxRescues)
    /\ rs.newGPSData
    /\ Nominal(c)
    /\ IF op = "boot" THEN k = 1 ELSE k \in {in.leg, MIN(NextLeg, 3)}
    /\ faults' = faults + (IF op = "boot" \/ k = MIN(NextLeg, 3) THEN 0 ELSE 1)
    /\ faults' <= MaxFaults
    /\ IF op = "boot"
       THEN d = FarCm
       ELSE d \in {in.GPS_distanceToHomeCm, in.GPS_distanceToHomeCm - CloseCm}
    /\ d >= FarCm - MaxCloses * CloseCm
    /\ Update([Collaborate(k, c, TRUE, TaskIntervalUs, TRUE, 8)
                  EXCEPT !.GPS_distanceToHomeCm = d])
    /\ rs'.rescues <= MaxRescues

NextFlyaway ==
    (\E k \in 1..3, n \in 0..MaxCloses, c \in {ModeOn, ModeOff} :
        Drift(k, FarCm - n * CloseCm, c))
      \/ GpsPacket

SpecFlyaway == InitFlyaway /\ [][NextFlyaway]_vars

---------------------------------------------------------------------------
(* SpecLatch: up to MaxRescues + 1 rescues of a craft that climbs and turns *)
(* but never comes closer to home, so that the flyaway counter saturates;  *)
(* the pilot may cancel at any update, and the craft is back low on leg 1  *)
(* whenever no rescue is running. A GPS packet arrives before every update.*)
(* The throttle I gain is set high enough for the integrator to reach its  *)
(* bound while the craft hangs above the return altitude.                  *)

InitLatch ==
    InitWith({[Config(m, FALSE, u) EXCEPT !.throttleI = 150] :
                 m \in {"RESCUE_SANITY_ON", "RESCUE_SANITY_OFF"}, u \in BOOLEAN})

Hover(k, c) ==
    /\ ~Over(MaxRescues + 1)
    /\ rs.newGPSData
    /\ k = IF op = "boot" \/ rs.phase = "RESCUE_IDLE" THEN 1 ELSE MIN(NextLeg, 3)
    /\ Update(Collaborate(k, c, TRUE, TaskIntervalUs, TRUE, 8))
    /\ rs'.rescues <= MaxRescues + 1
    /\ UNCHANGED faults

NextLatch == (\E k \in 1..3, c \in {ModeOn, ModeOff} : Hover(k, c)) \/ GpsPacket

SpecLatch == InitLatch /\ [][NextLatch]_vars

---------------------------------------------------------------------------
(* SpecStuck: one rescue, flown leg by leg in heading and distance, of a   *)
(* craft whose altitude either tracks the target altitude of the previous  *)
(* update (never below the ground) or stays where it is. It tracks first,  *)
(* may then hang, and may then track again: faults counts the changes, odd *)
(* while it hangs. The return altitude is 20 m, so that the climb and the  *)
(* descent each last several seconds. A GPS packet arrives before every    *)
(* update, except that the first update may run before the first packet.   *)

InitStuck ==
    InitWith({[Config(m, FALSE, TRUE) EXCEPT !.initialAltitudeM = 20] :
                 m \in {"RESCUE_SANITY_ON", "RESCUE_SANITY_OFF"}})

Stall(c, hang) ==
    /\ ~Over(MaxRescues)
    /\ rs.newGPSData \/ op = "boot"
    /\ Nominal(c)
    /\ faults' = IF hang = (faults % 2 = 1) THEN faults ELSE faults + 1
    /\ faults' <= MaxFaults + 1
    /\ LET k == IF rs.phase = "RESCUE_IDLE" THEN 1 ELSE NextLeg
           a == IF hang THEN in.getAltitude ELSE fmaxf(rs.targetAltitudeCm, 0)
       IN  UpdateWithin([Collaborate(k, c, TRUE, TaskIntervalUs, TRUE, 8)
                            EXCEPT !.getAltitude = a],
                        MaxStuckAltitudeCm)
    /\ rs'.rescues <= MaxRescues

NextStuck == (\E c \in {ModeOn, ModeOff}, hang \in BOOLEAN : Stall(c, hang)) \/ GpsPacket

SpecStuck == InitStuck /\ [][NextStuck]_vars

---------------------------------------------------------------------------
(* SpecCounters: a rescue started low and far out that climbs and turns    *)
(* and then makes no way home, while the receiver sees enough satellites   *)
(* or one too few: faults counts the changes between the two, odd while    *)
(* there are too few. A GPS packet arrives before every update.            *)

InitCounters ==
    InitWith({Config(m, FALSE, u) :
                 m \in {"RESCUE_SANITY_ON", "RESCUE_SANITY_OFF"}, u \in BOOLEAN})

Fade(c, low) ==
    /\ ~Over(MaxRescues)
    /\ rs.newGPSData
    /\ Nominal(c)
    /\ faults' = IF low = (faults % 2 = 1) THEN faults ELSE faults + 1
    /\ faults' <= MaxFaults + 1
    /\ LET k == IF rs.phase = "RESCUE_IDLE" THEN 1 ELSE MIN(NextLeg, 3)
           numSat == IF low THEN GPS_MIN_SAT_COUNT - 1 ELSE GPS_MIN_SAT_COUNT
       IN  Update(Collaborate(k, c, TRUE, TaskIntervalUs, TRUE, numSat))
    /\ rs'.rescues <= MaxRescues

NextCounters == (\E c \in {ModeOn, ModeOff}, low \in BOOLEAN : Fade(c, low)) \/ GpsPacket

SpecCounters == InitCounters /\ [][NextCounters]_vars

---------------------------------------------------------------------------
(* SpecRamp: the flights of Spec without its off-nominal conditions, the   *)
(* craft falling behind the phase in at most MaxFaults + 3 updates, with   *)
(* the rescue task run RampRateHz times a second. The task interval is the *)
(* float nearest to 1 / rate, and no whole number of them need add up to   *)
(* exactly 1: at the program's 100 Hz a hundred additions of 0.01f give    *)
(* 0.99999934f. Here the interval is 333 thousandths and three of them     *)
(* give 999.                                                               *)

RampIntervalUs == OneSecondUs \div RampRateHz

InitRamp ==
    /\ rs = [rescueStateInit EXCEPT !.gpsRescueTaskIntervalSeconds = 1000 \div RampRateHz]
    /\ cfg \in {Config("RESCUE_SANITY_ON", a, TRUE) : a \in BOOLEAN}
    /\ in = [Quiet EXCEPT !.dtUs = RampIntervalUs]
    /\ prev = Snapshot(rs)
    /\ op = "boot"
    /\ faults = 0

Ramp(k, c) ==
    /\ ~Over(MaxRescues)
    /\ rs.newGPSData
    /\ Nominal(c)
    /\ IF rs.phase = "RESCUE_IDLE" THEN k = 1 ELSE k \in {in.leg, NextLeg}
    /\ faults' = faults + (IF rs.phase = "RESCUE_IDLE" \/ k = NextLeg THEN 0 ELSE 1)
    /\ faults' <= MaxFaults + 3
    /\ Update(Collaborate(k, c, TRUE, RampIntervalUs, TRUE, 8))
    /\ rs'.rescues <= MaxRescues

NextRamp == (\E k \in LegIds, c \in {ModeOn, ModeOff} : Ramp(k, c)) \/ GpsPacket

SpecRamp == InitRamp /\ [][NextRamp]_vars

---------------------------------------------------------------------------
(* SpecAngle: the first update after boot, for a craft on any heading and  *)
(* a home in any direction. The attitude estimator and the GPS driver      *)
(* report both within one turn, 0..3600 tenths of a degree.                *)

Headings ==
    {h \in 0..3600 : h % HeadingStep = 0 \/ h \in {1, 1799, 1800, 1801, 3599}}

InitAngle ==
    /\ rs = rescueStateInit
    /\ cfg = Config("RESCUE_SANITY_ON", FALSE, TRUE)
    /\ in \in {[Quiet EXCEPT !.attitudeYaw = y, !.GPS_directionToHome = d] :
                  y \in Headings, d \in Headings}
    /\ prev = Snapshot(rescueStateInit)
    /\ op = "boot"
    /\ faults = 0

Sense == op = "boot" /\ Update(in) /\ UNCHANGED faults

NextAngle == Sense

SpecAngle == InitAngle /\ [][NextAngle]_vars

---------------------------------------------------------------------------
(* SpecAvailable: a craft that is flown armed, rescue mode off, low and    *)
(* far out or high and near, while the GPS driver's health, the home fix,  *)
(* the 3D fix and the satellite count come and go from update to update.   *)
(* A GPS packet may arrive between two updates.                            *)

InitAvailable == InitWith({Config("RESCUE_SANITY_ON", FALSE, TRUE)})

Watch(k, healthy, home, fix, low) ==
    /\ Update(Collaborate(k, Condition(FALSE, healthy, home, FALSE, 16), TRUE,
                          TaskIntervalUs, fix,
                          IF low THEN GPS_MIN_SAT_COUNT - 1 ELSE GPS_MIN_SAT_COUNT))
    /\ UNCHANGED faults

NextAvailable ==
    (\E k \in {1, 4}, healthy, home, fix, low \in BOOLEAN : Watch(k, healthy, home, fix, low))
      \/ GpsPacket

SpecAvailable == InitAvailable /\ [][NextAvailable]_vars

---------------------------------------------------------------------------
(* Properties. Updated == an update has run, so rs is the state at the end *)
(* of the last update (a GPS packet since then only set rs.newGPSData),    *)
(* in holds what that update read and prev what it started from.           *)

Updated == op = "gpsRescueUpdate"

Disarmed(reason) ==
    \E k \in DOMAIN rs.disarmLog : rs.disarmLog[k] = reason

\* C1: after every update that ends in the Idle phase the pitch and roll
\* angles are 0 and rescueThrottle is the pilot throttle read in that update,
\* whatever the phase before the update
C1_IdleOutputs ==
    (Updated /\ rs.phase = "RESCUE_IDLE") =>
        /\ rs.gpsRescueAngle.AI_PITCH = 0
        /\ rs.gpsRescueAngle.AI_ROLL = 0
        /\ rs.rescueThrottle = in.rcCommandThrottle

\* an update that cancelled a rescue in FlyHome, whose controllers had
\* commanded a pitch angle and a throttle other than the stick's
C1_Witness ==
    /\ Updated
    /\ rs.phase = "RESCUE_IDLE"
    /\ prev.phase = "RESCUE_FLY_HOME"
    /\ prev.rescueThrottle # in.rcCommandThrottle
    /\ prev.pitch # 0
    /\ rs.rescueThrottle = 1500

\* C2: after every update that ends in the Idle phase, failure is Healthy
C2_IdleIsHealthy ==
    (Updated /\ rs.phase = "RESCUE_IDLE") => rs.failure = "RESCUE_HEALTHY"

\* C3: an update that sees the rescue-mode flag cleared ends in Idle whatever
\* phase it started in, and leaves velocityI and throttleI as they were
C3_CancelIsOneTick ==
    (Updated /\ ~in.FLIGHT_MODE_GPS_RESCUE) =>
        /\ rs.phase = "RESCUE_IDLE"
        /\ rs.velocityI = prev.velocityI
        /\ rs.throttleI = prev.throttleI

\* a rescue cancelled in Descent with both integrators wound up
C3_Witness ==
    /\ Updated
    /\ ~in.FLIGHT_MODE_GPS_RESCUE
    /\ prev.phase = "RESCUE_DESCENT"
    /\ prev.throttleI # 0
    /\ prev.velocityI # 0
    /\ rs.phase = "RESCUE_IDLE"

\* the calls of the sanity supervisor made by the last update (an update that
\* starts a rescue makes two), each in a non-Idle phase
SanityCalls == {rs.sanityLog[k] : k \in DOMAIN rs.sanityLog}

\* the call made at the end of the last update, after the phase machine
EndCall ==
    IF Len(rs.sanityLog) = 2 \/ (Len(rs.sanityLog) = 1 /\ prev.phase # "RESCUE_IDLE")
    THEN {rs.sanityLog[Len(rs.sanityLog)]}
    ELSE {}

\* the phase the configured policy escalates a failure to
PolicyPhase ==
    CASE cfg.sanityChecks = "RESCUE_SANITY_ON" -> "RESCUE_ABORT"
      [] cfg.sanityChecks = "RESCUE_SANITY_FS_ONLY" ->
            IF ~in.rxIsReceivingSignal THEN "RESCUE_ABORT" ELSE "RESCUE_DO_NOTHING"
      [] cfg.sanityChecks = "RESCUE_SANITY_OFF" ->
            IF cfg.allowArmingWithoutFix /\ ~in.fixHome /\ ~in.rxIsReceivingSignal
            THEN "RESCUE_ABORT" ELSE "RESCUE_DO_NOTHING"

\* C4: whenever the sanity supervisor runs in a non-Idle phase with a failure
\* other than Healthy on entry and no crash-flip, it sets the phase the policy
\* names (Abort or DoNothing by sanityChecks, the receiver link, the home fix
\* and allowArmingWithoutFix), and the update ends in that phase or in Abort;
\* with failure Healthy on entry it leaves the phase alone
C4_EscalationPolicy ==
    Updated =>
        /\ \A e \in SanityCalls :
              /\ e.failure # "RESCUE_HEALTHY" => e.escalated = PolicyPhase
              /\ e.failure = "RESCUE_HEALTHY" => e.escalated = e.phase
        /\ \A e \in EndCall :
              (e.failure # "RESCUE_HEALTHY" /\ ~e.crash)
                  => rs.phase \in {PolicyPhase, "RESCUE_ABORT"}

\* failsafe-only policy, link up: a rescue flying home with GPS lost is
\* sent to DoNothing, not to Abort
C4_Witness ==
    /\ Updated
    /\ cfg.sanityChecks = "RESCUE_SANITY_FS_ONLY"
    /\ in.rxIsReceivingSignal
    /\ prev.phase = "RESCUE_FLY_HOME"
    /\ prev.failure = "RESCUE_GPSLOST"
    /\ rs.phase = "RESCUE_DO_NOTHING"
    /\ \E e \in SanityCalls : e.failure = "RESCUE_GPSLOST" /\ ~e.crash

\* C5: whenever the sanity supervisor runs in a non-Idle phase while
\* crashRecoveryModeActive() is true, arming is disabled, disarm is called
\* with reason CrashProtection and the update ends in Idle, under every
\* sanityChecks setting and failure value
C5_CrashFlipDisarms ==
    (Updated /\ \E e \in SanityCalls : e.crash) =>
        /\ rs.armingDisabled
        /\ Disarmed("DISARM_REASON_CRASH_PROTECTION")
        /\ rs.phase = "RESCUE_IDLE"

\* a crash while rotating, sanity checks off, no failure raised
C5_Witness ==
    /\ Updated
    /\ cfg.sanityChecks = "RESCUE_SANITY_OFF"
    /\ prev.phase = "RESCUE_ROTATE"
    /\ prev.failure = "RESCUE_HEALTHY"
    /\ \E e \in SanityCalls : e.crash /\ e.phase = "RESCUE_FLY_HOME"
    /\ rs.phase = "RESCUE_IDLE"

\* C6 as stated: whenever an update ends in Abort, the next update disables
\* arming, calls disarm with reason Failsafe, resets secondsFailing and ends
\* in Idle
C6_AbortAlwaysDisarms ==
    (Updated /\ prev.phase = "RESCUE_ABORT") =>
        /\ rs.armingDisabled
        /\ Disarmed("DISARM_REASON_FAILSAFE")
        /\ rs.secondsFailing = 0
        /\ rs.phase = "RESCUE_IDLE"

\* C6 amended: the update after one that ended in Abort ends in Idle; if it
\* still sees the rescue-mode flag it disables arming, disarms with reason
\* Failsafe and resets secondsFailing; if the flag is cleared the rescue is
\* stopped first and nothing is disarmed
C6_AbortDisarmsUnlessCancelled ==
    (Updated /\ prev.phase = "RESCUE_ABORT") =>
        /\ rs.phase = "RESCUE_IDLE"
        /\ in.FLIGHT_MODE_GPS_RESCUE =>
              /\ rs.armingDisabled
              /\ Disarmed("DISARM_REASON_FAILSAFE")
              /\ rs.secondsFailing = 0
        /\ ~in.FLIGHT_MODE_GPS_RESCUE =>
              /\ rs.disarmLog = << >>
              /\ rs.secondsFailing = prev.secondsFailing

\* an Abort reached after seconds of failing, disarmed by the next update
C6_Witness ==
    /\ Updated
    /\ prev.phase = "RESCUE_ABORT"
    /\ prev.secondsFailing > 0
    /\ in.FLIGHT_MODE_GPS_RESCUE
    /\ Disarmed("DISARM_REASON_FAILSAFE")
    /\ rs.secondsFailing = 0

\* the last update started a rescue and ran the Initialize step on the ground
\* beside home: home fix, inside minRescueDth, inside 5 m, below the landing
\* altitude
GroundActivation ==
    /\ Updated
    /\ prev.phase = "RESCUE_IDLE"
    /\ rs.stepPhase = "RESCUE_INITIALIZE"
    /\ in.fixHome
    /\ rs.distanceToHomeM < cfg.minRescueDth * 100
    /\ rs.distanceToHomeM < 500
    /\ rs.currentAltitudeCm < rs.targetLandingAltitudeCm

\* C7: a rescue activated on the ground beside home ends its activation
\* update in Abort (stated here for updates that see no crash-flip)
C7_GroundActivationAborts ==
    (GroundActivation /\ ~in.crashRecoveryModeActive) => rs.phase = "RESCUE_ABORT"

\* C8: in every update whose phase-machine step runs in Landing or DoNothing,
\* accMagnitude above disarmThreshold disables arming, disarms with reason
\* GpsRescue and ends the update in Idle; at or below the threshold no
\* GpsRescue disarm is issued
C8_ImpactDisarms ==
    (Updated /\ rs.stepPhase \in {"RESCUE_LANDING", "RESCUE_DO_NOTHING"}) =>
        IF rs.accMagnitude > rs.disarmThreshold
        THEN /\ rs.armingDisabled
             /\ Disarmed("DISARM_REASON_GPS_RESCUE")
             /\ rs.phase = "RESCUE_IDLE"
        ELSE ~Disarmed("DISARM_REASON_GPS_RESCUE")

\* a second rescue, sent to DoNothing by a GPS loss, disarms at once on the
\* acceleration kept from the landing impact of the first
C8_Witness ==
    /\ Updated
    /\ rs.rescues = 2
    /\ rs.stepPhase = "RESCUE_DO_NOTHING"
    /\ rs.accMagnitude = 25
    /\ rs.disarmThreshold = 20
    /\ in.accADC.Z = cfg.acc_1G
    /\ Disarmed("DISARM_REASON_GPS_RESCUE")
    /\ rs.phase = "RESCUE_IDLE"

\* the last update made a 1 Hz pass of the sanity checks
OneHzPass == \E e \in EndCall : e.oneHz

\* C9 as stated: an unhealthy GPS seen in FlyHome with failure Healthy ends
\* that update with failure GpsLost and phase FlyHome, and with sanity checks
\* on the next update ends in Abort
C9_GpsLossOneTickLate ==
    /\ (Updated /\ prev.phase = "RESCUE_FLY_HOME" /\ prev.failure = "RESCUE_HEALTHY"
            /\ ~in.gpsIsHealthy)
          => (rs.failure = "RESCUE_GPSLOST" /\ rs.phase = "RESCUE_FLY_HOME")
    /\ (Updated /\ cfg.sanityChecks = "RESCUE_SANITY_ON"
            /\ prev.phase = "RESCUE_FLY_HOME" /\ prev.failure = "RESCUE_GPSLOST")
          => rs.phase = "RESCUE_ABORT"

\* C9 amended: provided the update sees the rescue-mode flag and no
\* crash-flip, an unhealthy GPS seen in FlyHome with failure Healthy ends the
\* update with failure GpsLost (or the Flyaway or LowSats of its 1 Hz pass),
\* in FlyHome, or in Descent when new GPS data put the craft inside the descent
\* distance; with sanity checks on the next update ends in Abort under the
\* same proviso, and in Idle without it
C9_GpsLossOneTickLateUnlessStopped ==
    /\ (Updated /\ prev.phase = "RESCUE_FLY_HOME" /\ prev.failure = "RESCUE_HEALTHY"
            /\ ~in.gpsIsHealthy
            /\ in.FLIGHT_MODE_GPS_RESCUE /\ ~in.crashRecoveryModeActive)
          => /\ \/ rs.failure = "RESCUE_GPSLOST"
                \/ OneHzPass /\ rs.failure \in {"RESCUE_FLYAWAY", "RESCUE_LOWSATS"}
             /\ IF prev.newGPSData /\ rs.distanceToHomeM <= rs.descentDistanceM
                THEN rs.phase = "RESCUE_DESCENT"
                ELSE rs.phase = "RESCUE_FLY_HOME"
    /\ (Updated /\ cfg.sanityChecks = "RESCUE_SANITY_ON"
            /\ prev.phase = "RESCUE_FLY_HOME" /\ prev.failure = "RESCUE_GPSLOST")
          => IF in.FLIGHT_MODE_GPS_RESCUE /\ ~in.crashRecoveryModeActive
             THEN rs.phase = "RESCUE_ABORT"
             ELSE rs.phase = "RESCUE_IDLE"

\* sanity checks on: the update after the one that reported the loss in
\* FlyHome ends in Abort although the GPS is healthy again
C9_Witness ==
    /\ Updated
    /\ cfg.sanityChecks = "RESCUE_SANITY_ON"
    /\ prev.phase = "RESCUE_FLY_HOME"
    /\ prev.failure = "RESCUE_GPSLOST"
    /\ in.gpsIsHealthy
    /\ rs.phase = "RESCUE_ABORT"

\* the 1 Hz pass made by the last update, if it was made in FlyHome
FlyHomePass == {e \in EndCall : e.oneHz /\ e.passPhase = "RESCUE_FLY_HOME"}

\* the one-shot retry without the magnetometer is still to be had
MagRetry(e) == cfg.USE_MAG /\ in.sensorsMag /\ cfg.useMag /\ ~e.magForceDisable

\* C10 as stated: each 1 Hz pass in FlyHome adds 1 to secondsFailing when the
\* distance closed since the previous pass is under half of targetVelocityCmS
\* and subtracts 1 otherwise; the 15th failing pass in a row sets failure to
\* Flyaway unless the magnetometer retry applies
C10_FlyawayCounting ==
    Updated =>
        \A e \in FlyHomePass :
            LET failing == 2 * (e.passDistanceCm - rs.distanceToHomeCm) < rs.targetVelocityCmS
            IN  /\ (e.secondsFailing < 14 \/ ~failing) =>
                      rs.secondsFailing = e.secondsFailing + (IF failing THEN 1 ELSE -1)
                /\ (e.secondsFailing = 14 /\ failing /\ ~MagRetry(e)) =>
                      rs.failure = "RESCUE_FLYAWAY"

\* C10 amended: each 1 Hz pass in FlyHome compares the distance closed since
\* the distance the supervisor last recorded (at the previous FlyHome pass, or
\* at the start of the rescue for the first one) with half of
\* targetVelocityCmS, adds 1 to secondsFailing when it is less and subtracts 1
\* otherwise, and keeps the count within 0..15; a count of 15 sets failure to
\* Flyaway, unless the magnetometer retry applies, which sets magForceDisable
\* and puts the count back to 0
C10_FlyawayCountingClamped ==
    Updated =>
        \A e \in FlyHomePass :
            LET failing == 2 * (e.previousDistanceToHomeCm - rs.distanceToHomeCm)
                               < rs.targetVelocityCmS
                counted == constrain(e.secondsFailing + (IF failing THEN 1 ELSE -1), 0, 15)
            IN  /\ rs.previousDistanceToHomeCm = rs.distanceToHomeCm
                /\ counted < 15 =>
                      /\ rs.secondsFailing = counted
                      /\ rs.magForceDisable = e.magForceDisable
                      /\ rs.failure # "RESCUE_FLYAWAY"
                /\ (counted = 15 /\ MagRetry(e)) =>
                      /\ rs.secondsFailing = 0
                      /\ rs.magForceDisable
                      /\ rs.failure # "RESCUE_FLYAWAY"
                /\ (counted = 15 /\ ~MagRetry(e)) =>
                      /\ rs.secondsFailing = 15
                      /\ rs.failure = "RESCUE_FLYAWAY"

\* the magnetometer retry was used up, the count came down once on the way
\* and the 15th failing pass declares the flyaway
C10_Witness ==
    /\ Updated
    /\ cfg.useMag
    /\ rs.magForceDisable
    /\ in.GPS_distanceToHomeCm < FarCm
    /\ \E e \in FlyHomePass : e.secondsFailing = 14 /\ e.magForceDisable
    /\ rs.failure = "RESCUE_FLYAWAY"

\* the 1 Hz pass made by the last update, if it was made in DoNothing
DoNothingPass == {e \in EndCall : e.oneHz /\ e.passPhase = "RESCUE_DO_NOTHING"}

\* C13: secondsDoingNothing is 0 after the update that starts a rescue, each
\* 1 Hz pass made in DoNothing adds 1 to it and nothing else changes it; the
\* pass that brings it to 20 sets the phase to Abort, and a pass that leaves
\* it below 20 leaves the phase DoNothing
C13_DoNothingIsTimeLimited ==
    Updated =>
        /\ (prev.phase = "RESCUE_IDLE" /\ rs.stepPhase = "RESCUE_INITIALIZE")
              => rs.secondsDoingNothing = 0
        /\ \A e \in EndCall \ DoNothingPass :
              rs.secondsDoingNothing = e.secondsDoingNothing
        /\ \A e \in DoNothingPass :
              /\ rs.secondsDoingNothing = e.secondsDoingNothing + 1
              /\ rs.secondsDoingNothing <= 20
              /\ IF rs.secondsDoingNothing = 20
                 THEN rs.phase = "RESCUE_ABORT"
                 ELSE rs.phase = "RESCUE_DO_NOTHING"

\* the 20th pass in DoNothing of a rescue ends it in Abort
C13_Witness ==
    /\ Updated
    /\ prev.phase = "RESCUE_DO_NOTHING"
    /\ \E e \in DoNothingPass : e.secondsDoingNothing = 19
    /\ rs.secondsDoingNothing = 20
    /\ rs.phase = "RESCUE_ABORT"

\* C14: after every update that ends in DoNothing the pitch and roll angles
\* are 0 and rescueThrottle is throttleHover - 100, the update in which the
\* sanity supervisor first forces DoNothing included
C14_DoNothingOutputs ==
    (Updated /\ rs.phase = "RESCUE_DO_NOTHING") =>
        /\ rs.gpsRescueAngle.AI_PITCH = 0
        /\ rs.gpsRescueAngle.AI_ROLL = 0
        /\ rs.rescueThrottle = cfg.throttleHover - 100

\* the update in which the supervisor forces a rescue that was flying home,
\* pitched forward, into DoNothing
C14_Witness ==
    /\ Updated
    /\ prev.phase = "RESCUE_FLY_HOME"
    /\ prev.pitch # 0
    /\ prev.rescueThrottle # cfg.throttleHover - 100
    /\ rs.stepPhase = "RESCUE_FLY_HOME"
    /\ rs.phase = "RESCUE_DO_NOTHING"

\* C19: an update that runs with no new GPS data pending leaves
\* distanceToHomeCm, distanceToHomeM, groundSpeedCmS, gpsDataIntervalSeconds
\* and velocityToHomeCmS as they were and does not evaluate the velocity PID:
\* pitchAdjustment keeps its value, and so do previousVelocityError and
\* velocityI unless the update starts a rescue, which zeroes them
C19_NoPacketNoVelocityPid ==
    [][(op' = "gpsRescueUpdate" /\ ~rs.newGPSData /\ ~rs'.newGPSData) =>
          /\ rs'.distanceToHomeCm = rs.distanceToHomeCm
          /\ rs'.distanceToHomeM = rs.distanceToHomeM
          /\ rs'.groundSpeedCmS = rs.groundSpeedCmS
          /\ rs'.gpsDataIntervalSeconds = rs.gpsDataIntervalSeconds
          /\ rs'.velocityToHomeCmS = rs.velocityToHomeCmS
          /\ rs'.pitchAdjustment = rs.pitchAdjustment
          /\ IF in'.FLIGHT_MODE_GPS_RESCUE /\ rs.phase = "RESCUE_IDLE"
             THEN rs'.velocityI = 0 /\ rs'.previousVelocityError = 0
             ELSE /\ rs'.velocityI = rs.velocityI
                  /\ rs'.previousVelocityError = rs.previousVelocityError]_vars

\* an update of a descending rescue, its velocity integrator wound up, that
\* ran without a new GPS packet
C19_Witness ==
    /\ Updated
    /\ ~prev.newGPSData
    /\ prev.phase = "RESCUE_DESCENT"
    /\ rs.stepPhase = "RESCUE_DESCENT"
    /\ in.FLIGHT_MODE_GPS_RESCUE
    /\ prev.velocityI # 0
    /\ rs.velocityI = prev.velocityI

\* the pass brings the flyaway counter to 15
Saturates(e) ==
    LET failing == 2 * (e.previousDistanceToHomeCm - rs.distanceToHomeCm)
                       < rs.targetVelocityCmS
    IN  constrain(e.secondsFailing + (IF failing THEN 1 ELSE -1), 0, 15) = 15

\* C11: magForceDisable is a one-shot latch. A FlyHome pass that saturates
\* the flyaway counter with a magnetometer present, useMag set and the latch
\* still open closes it, puts secondsFailing back to 0 and leaves failure as
\* it was (the low-satellite check of the same pass may still set LowSats);
\* a saturating pass with the latch closed, or without the magnetometer,
\* sets failure to Flyaway; nothing else closes the latch and no step of
\* any update (cancel, Abort, a new rescue) opens it again
C11_MagLatch ==
    /\ [](Updated =>
            \A e \in FlyHomePass :
                Saturates(e) =>
                    IF MagRetry(e)
                    THEN /\ rs.magForceDisable
                         /\ rs.secondsFailing = 0
                         /\ \/ rs.failure = e.passFailure
                            \/ rs.secondsLowSats = 10 /\ rs.failure = "RESCUE_LOWSATS"
                    ELSE /\ rs.magForceDisable = e.magForceDisable
                         /\ rs.secondsLowSats < 10 => rs.failure = "RESCUE_FLYAWAY")
    /\ [][rs.magForceDisable => rs'.magForceDisable]_vars
    /\ [][(~rs.magForceDisable /\ rs'.magForceDisable) =>
              /\ op' = "gpsRescueUpdate"
              /\ cfg.useMag /\ in'.sensorsMag
              /\ rs'.secondsFailing = 0
              /\ \E k \in DOMAIN rs'.sanityLog :
                    /\ rs'.sanityLog[k].oneHz
                    /\ rs'.sanityLog[k].passPhase = "RESCUE_FLY_HOME"
                    /\ rs'.sanityLog[k].secondsFailing = 14]_vars

\* a second rescue, the latch closed by the first: its first saturation
\* declares the flyaway
C11_Witness ==
    /\ Updated
    /\ cfg.useMag
    /\ rs.rescues = 2
    /\ rs.magForceDisable
    /\ \E e \in FlyHomePass : e.secondsFailing = 14 /\ e.magForceDisable
    /\ rs.failure = "RESCUE_FLYAWAY"

\* C18: in every reachable state |throttleI| <= 200 and |velocityI| is at
\* most half of the pitch angle limit (in degrees * 100), whatever phase
\* changes and rescues came before
C18_IntegratorsClamped ==
    /\ Abs(rs.throttleI) <= GPS_RESCUE_MAX_THROTTLE_ITERM
    /\ 2 * Abs(rs.velocityI) <= rs.pitchAngleLimitDeg

\* a second rescue has just started: the pitch limit is back to 0 and so is
\* the velocity integrator, which the cancelled first rescue had left at its
\* bound with the throttle integrator at its own
C18_Witness ==
    /\ Updated
    /\ rs.rescues = 2
    /\ prev.phase = "RESCUE_IDLE"
    /\ 2 * Abs(prev.velocityI) = 100 * cfg.maxRescueAngle
    /\ Abs(prev.throttleI) = GPS_RESCUE_MAX_THROTTLE_ITERM
    /\ rs.phase = "RESCUE_ATTAIN_ALT"
    /\ rs.pitchAngleLimitDeg = 0
    /\ rs.velocityI = 0

\* the state an activation hands to the phase machine is seeded
Seeded(s) ==
    /\ s.phase = "RESCUE_INITIALIZE"
    /\ s.velocityI = 0
    /\ s.throttleI = 0
    /\ s.previousVelocityError = 0
    /\ s.previousAltitudeError = 0
    /\ s.throttleAdjustment = 0
    /\ s.secondsLowSats = 0
    /\ s.secondsDoingNothing = 0

\* C20: every update that finds the rescue-mode flag set while the phase is
\* Idle, the first activation or one after a cancel, starts a rescue and runs
\* its phase-machine step in Initialize with velocityI, throttleI,
\* previousVelocityError, previousAltitudeError, throttleAdjustment,
\* secondsLowSats and secondsDoingNothing at 0
C20_ReactivationReseeds ==
    [][(op' = "gpsRescueUpdate" /\ ~rs'.newGPSData
            /\ in'.FLIGHT_MODE_GPS_RESCUE /\ rs.phase = "RESCUE_IDLE") =>
          /\ Seeded(updateIntake(rs, in'))
          /\ rs'.stepPhase = "RESCUE_INITIALIZE"
          /\ rs'.rescues = rs.rescues + 1]_vars

\* the update after a cancel starts the second rescue; the first had left
\* both integrators wound up and a count of failing seconds
C20_Witness ==
    /\ Updated
    /\ rs.rescues = 2
    /\ prev.phase = "RESCUE_IDLE"
    /\ prev.velocityI # 0
    /\ prev.throttleI # 0
    /\ prev.secondsFailing > 0
    /\ rs.stepPhase = "RESCUE_INITIALIZE"
    /\ rs.phase = "RESCUE_ATTAIN_ALT"

\* the 1 Hz pass made by the last update, if it was made in Landing,
\* AttainAlt or Descent
StuckPass ==
    {e \in EndCall : e.oneHz /\ e.passPhase \in
        {"RESCUE_LANDING", "RESCUE_ATTAIN_ALT", "RESCUE_DESCENT"}}

\* actual / target <= 0.5f in IEEE arithmetic: x / 0 is an infinity of the
\* sign of x, and 0 / 0 is not a number and compares false
RatioAtMostHalf(actual, target) ==
    IF target = 0 THEN actual < 0
    ELSE IF target > 0 THEN 2 * actual <= target ELSE 2 * actual >= target

\* what a pass that counts `up` leaves: the count within 0..10, and at 10
\* Abort from Landing, Landing with the count back at 0 from AttainAlt or
\* Descent
StuckOutcome(e, up) ==
    LET counted == constrain(e.secondsFailing + (IF up THEN 1 ELSE -1), 0, 10)
    IN  IF counted < 10
        THEN rs.secondsFailing = counted /\ rs.phase = e.passPhase
        ELSE IF e.passPhase = "RESCUE_LANDING"
             THEN rs.secondsFailing = 10 /\ rs.phase = "RESCUE_ABORT"
             ELSE rs.secondsFailing = 0 /\ rs.phase = "RESCUE_LANDING"

\* C12 as stated: each 1 Hz pass in Landing, AttainAlt or Descent counts up
\* when (change of altitude) / (change of target altitude) since the
\* previous pass is <= 0.5 and down otherwise
C12_StuckCounting ==
    Updated =>
        \A e \in StuckPass :
            StuckOutcome(e, RatioAtMostHalf(rs.currentAltitudeCm - e.prevAltitudeCm,
                                            rs.targetAltitudeCm - e.prevTargetAltitudeCm))

\* C12 amended: each 1 Hz pass in Landing, AttainAlt or Descent counts down
\* when the ratio is above 0.5 and up otherwise, which includes the pass in
\* which neither the altitude nor the target has changed (0 / 0)
C12_StuckCountingNotAbove ==
    Updated =>
        \A e \in StuckPass :
            StuckOutcome(e, ~ratioAboveHalf(rs.currentAltitudeCm - e.prevAltitudeCm,
                                            rs.targetAltitudeCm - e.prevTargetAltitudeCm))

\* a landing in which neither the altitude nor the target altitude has
\* changed for a second: the pass counts up
C12_Witness ==
    /\ Updated
    /\ \E e \in StuckPass :
          /\ e.passPhase = "RESCUE_LANDING"
          /\ rs.currentAltitudeCm = e.prevAltitudeCm
          /\ rs.targetAltitudeCm = e.prevTargetAltitudeCm
          /\ rs.secondsFailing = e.secondsFailing + 1

\* C17: after every update that ends in AttainAlt, Rotate, FlyHome, Descent,
\* Landing or Abort, throttleMin <= rescueThrottle <= throttleMax
C17_ThrottleWithinLimits ==
    (Updated /\ rs.phase \notin {"RESCUE_IDLE", "RESCUE_INITIALIZE", "RESCUE_DO_NOTHING"}) =>
        /\ cfg.throttleMin <= rs.rescueThrottle
        /\ rs.rescueThrottle <= cfg.throttleMax

\* a climb that hangs: the controller asks for more than throttleMax
C17_Witness ==
    /\ Updated
    /\ rs.phase = "RESCUE_ATTAIN_ALT"
    /\ cfg.throttleHover + rs.throttleAdjustment > cfg.throttleMax
    /\ rs.rescueThrottle = cfg.throttleMax

\* C15: after any sequence of updates 0 <= secondsFailing <= 15 and
\* 0 <= secondsLowSats <= 10
C15_CountersBounded ==
    /\ 0 <= rs.secondsFailing /\ rs.secondsFailing <= 15
    /\ 0 <= rs.secondsLowSats /\ rs.secondsLowSats <= 10

\* a pass with too few satellites finds secondsLowSats at 10 and leaves it
\* there, the flyaway count having reached 15
C15_Witness ==
    /\ Updated
    /\ in.numSat < GPS_MIN_SAT_COUNT
    /\ \E e \in EndCall : e.oneHz /\ e.secondsLowSats = 10
    /\ rs.secondsLowSats = 10
    /\ rs.secondsFailing = 15

\* a float that is a number within 0..1, in thousandths
WithinUnit(x) == x \in 0..1000

\* C16: after any update 0 <= yawAttenuator <= 1, 0 <= velocityItermRelax <= 1
\* and 0 <= proximityToLandingArea <= 1; the ramp of yawAttenuator in Rotate
\* and FlyHome never carries it above 1
C16_UnitRanges ==
    /\ WithinUnit(rs.yawAttenuator)
    /\ WithinUnit(rs.velocityItermRelax)
    /\ WithinUnit(rs.proximityToLandingArea)

\* an update that finds the rescue-mode flag set in Idle with a home fix,
\* reaches its phase-machine step with failure Healthy, inside the minimum
\* rescue distance and not both within 5 m and below the landing altitude
AirActivation ==
    /\ op' = "gpsRescueUpdate" /\ ~rs'.newGPSData
    /\ rs.phase = "RESCUE_IDLE"
    /\ in'.FLIGHT_MODE_GPS_RESCUE
    /\ in'.fixHome
    /\ LET s == updateIntake(rs, in')
       IN  /\ s.failure = "RESCUE_HEALTHY"
           /\ s.distanceToHomeM < cfg.minRescueDth * 100
           /\ ~(s.distanceToHomeM < 500
                  /\ s.currentAltitudeCm < 100 * cfg.targetLandingAltitudeM)

\* the intent an activation straight into Landing leaves
LandingIntent(s) ==
    /\ s.pitchAngleLimitDeg = 0
    /\ s.rollAngleLimitDeg = 0
    /\ s.targetVelocityCmS = 0
    /\ s.proximityToLandingArea = 0
    /\ s.targetAltitudeCm =
         s.currentAltitudeCm - Quot(s.altitudeDataIntervalSeconds * cfg.descendRate, 1000)

\* C21: a rescue activated with a home fix, failure Healthy, inside the
\* minimum rescue distance and airborne ends its activation update in Landing
\* with pitch and roll limits, target velocity and proximity at 0 and the
\* target altitude one descent step below the current altitude
C21_AirActivationLands ==
    [][AirActivation => (rs'.phase = "RESCUE_LANDING" /\ LandingIntent(rs'))]_vars

\* C21 amended: the same when that update sees no crash-flip; a crash-flip
\* stops the rescue and the update ends in Idle
C21_AirActivationLandsUnlessStopped ==
    [][AirActivation =>
          IF in'.crashRecoveryModeActive
          THEN rs'.phase = "RESCUE_IDLE"
          ELSE rs'.phase = "RESCUE_LANDING" /\ LandingIntent(rs')]_vars

\* a rescue activated 8 m up and 10 m from home
C21_Witness ==
    /\ Updated
    /\ prev.phase = "RESCUE_IDLE"
    /\ rs.stepPhase = "RESCUE_INITIALIZE"
    /\ rs.phase = "RESCUE_LANDING"
    /\ rs.failure = "RESCUE_HEALTHY"
    /\ rs.currentAltitudeCm = 800
    /\ rs.distanceToHomeM = 1000
    /\ rs.targetAltitudeCm < rs.currentAltitudeCm

\* C22: after every sensor update errorAngle lies in (-180, 180] degrees and
\* absErrorAngle = |errorAngle|, for every yaw and direction to home supplied
C22_ErrorAngleRange ==
    /\ -1800 < rs.errorAngle /\ rs.errorAngle <= 1800
    /\ rs.absErrorAngle = Abs(rs.errorAngle)

\* yaw less direction was above 180 degrees and has been wrapped
C22_Witness ==
    /\ Updated
    /\ in.attitudeYaw - in.GPS_directionToHome > 1800
    /\ rs.errorAngle = in.attitudeYaw - in.GPS_directionToHome - 3600
    /\ rs.absErrorAngle = -rs.errorAngle

Evaluates ==
    /\ in'.gpsIsHealthy
    /\ in'.fixHome
    /\ rs.availDTime + in'.dtUs >= OneSecondUs

\* C24: isAvailable is false after an update that finds the GPS driver
\* unhealthy or no home fix, and otherwise false exactly when the noGPSfix or
\* the lowsats latch is set; the latches are evaluated at most once a second
\* (noGPSfix: no 3D fix; lowsats: a counter stepped +1 / -1 on the satellite
\* count, clamped to 0..2, is at 2) and keep their value in between
C24_Availability ==
    /\ [](Updated =>
            rs.isAvailable =
                (in.gpsIsHealthy /\ in.fixHome /\ ~rs.noGPSfix /\ ~rs.lowsats))
    /\ [][(op' = "gpsRescueUpdate" /\ ~rs'.newGPSData) =>
            IF Evaluates
            THEN /\ rs'.noGPSfix = ~in'.fix
                 /\ rs'.availSecondsLowSats =
                        constrain(rs.availSecondsLowSats
                                    + (IF in'.numSat < GPS_MIN_SAT_COUNT THEN 1 ELSE -1),
                                  0, 2)
                 /\ rs'.lowsats = (rs'.availSecondsLowSats = 2)
                 /\ rs'.availDTime = 0
            ELSE /\ rs'.noGPSfix = rs.noGPSfix
                 /\ rs'.lowsats = rs.lowsats
                 /\ rs'.availSecondsLowSats = rs.availSecondsLowSats]_vars

\* an update with a healthy driver, a home fix, a 3D fix and satellites
\* enough reports the rescue unavailable: the lowsats latch of the last
\* evaluation still holds
C24_Witness ==
    /\ Updated
    /\ in.gpsIsHealthy /\ in.fixHome /\ in.fix
    /\ in.numSat >= GPS_MIN_SAT_COUNT
    /\ rs.availDTime > 0
    /\ rs.lowsats
    /\ ~rs.noGPSfix
    /\ ~rs.isAvailable

\* the fields of rescueState other than maxAltitudeCm and targetAltitudeCm
RescueStateRest ==
    {"phase", "failure", "isAvailable",
     "currentAltitudeCm", "distanceToHomeCm", "distanceToHomeM", "groundSpeedCmS",
     "directionToHome", "accMagnitude", "healthy", "errorAngle", "absErrorAngle",
     "gpsDataIntervalSeconds", "altitudeDataIntervalSeconds",
     "gpsRescueTaskIntervalSeconds", "velocityToHomeCmS",
     "returnAltitudeCm", "targetLandingAltitudeCm", "targetVelocityCmS",
     "pitchAngleLimitDeg", "rollAngleLimitDeg", "descentDistanceM", "secondsFailing",
     "altitudeStep", "descentRateModifier", "yawAttenuator", "disarmThreshold",
     "proximityToLandingArea", "velocityItermRelax"}

SameOn(fields, a, b) == \A f \in fields : a[f] = b[f]

\* the update being taken is given the inputs of the update before, which ran
\* with the rescue-mode flag off; a GPS packet is pending only if one was
\* pending then
SecondRun ==
    /\ op = "gpsRescueUpdate"
    /\ op' = "gpsRescueUpdate" /\ ~rs'.newGPSData
    /\ ~in.FLIGHT_MODE_GPS_RESCUE
    /\ in' = in
    /\ rs.newGPSData => prev.newGPSData

\* C25 as stated: with the rescue-mode flag off a second update with the same
\* inputs leaves phase Idle, failure Healthy and every field of rescueState
\* but maxAltitudeCm and targetAltitudeCm as the first left it
C25_IdleIdempotent ==
    [][SecondRun =>
          /\ rs'.phase = "RESCUE_IDLE"
          /\ rs'.failure = "RESCUE_HEALTHY"
          /\ SameOn(RescueStateRest, rs', rs)]_vars

\* C25 amended: the same but for isAvailable, which changes only in a second
\* run that evaluates the availability latches, and velocityToHomeCmS, which
\* a second run with a GPS packet pending again sets to 0
C25_IdleIdempotentButAvailability ==
    [][SecondRun =>
          /\ rs'.phase = "RESCUE_IDLE"
          /\ rs'.failure = "RESCUE_HEALTHY"
          /\ SameOn(RescueStateRest \ {"isAvailable", "velocityToHomeCmS"}, rs', rs)
          /\ rs'.isAvailable # rs.isAvailable => Evaluates
          /\ rs'.velocityToHomeCmS # rs.velocityToHomeCmS =>
                (rs.newGPSData /\ rs'.velocityToHomeCmS = 0)]_vars

\* a second run, no packet pending, after one that took in a new distance
\* and altitude: it finds the sensor view and the return altitude as the
\* first left them
C25_Witness ==
    /\ Updated
    /\ prev.repeat
    /\ ~in.FLIGHT_MODE_GPS_RESCUE
    /\ ~prev.newGPSData
    /\ prev.phase = "RESCUE_IDLE"
    /\ rs.phase = "RESCUE_IDLE"
    /\ rs.velocityToHomeCmS # 0
    /\ rs.distanceToHomeCm = in.GPS_distanceToHomeCm
    /\ rs.currentAltitudeCm = in.getAltitude
    /\ rs.maxAltitudeCm = rs.currentAltitudeCm

\* the step being taken is an update
UpdateStep == op' = "gpsRescueUpdate" /\ ~rs'.newGPSData

\* the state the phase machine of the update being taken starts from, and
\* the state it leaves to the sanity checks
StepFrom == updateIntake(rs, in')

StepTo == phaseMachine(StepFrom, in')

\* C26: a phase-machine step in AttainAlt with the altitude on the side of
\* returnAltitudeCm it was on at Initialize moves targetAltitudeCm by
\* +ascendRate * interval (started low) or -descendRate * interval (started
\* high) and stays in AttainAlt; a step with the altitude on the other side
\* sets targetAltitudeCm to returnAltitudeCm, altitudeStep to 0 and the phase
\* to Rotate
C26_AttainAltStep ==
    [][(UpdateStep /\ StepFrom.phase = "RESCUE_ATTAIN_ALT") =>
          LET s == StepFrom
              n == StepTo
              interval == s.gpsRescueTaskIntervalSeconds
          IN  /\ rs'.targetAltitudeCm = n.targetAltitudeCm
              /\ IF s.initialAltitudeLow = (s.currentAltitudeCm < s.returnAltitudeCm)
                 THEN /\ n.phase = "RESCUE_ATTAIN_ALT"
                      /\ n.targetAltitudeCm - s.targetAltitudeCm =
                           IF s.initialAltitudeLow
                           THEN Quot(cfg.ascendRate * interval, 1000)
                           ELSE -Quot(cfg.descendRate * interval, 1000)
                 ELSE /\ n.phase = "RESCUE_ROTATE"
                      /\ n.targetAltitudeCm = s.returnAltitudeCm
                      /\ n.altitudeStep = 0]_vars

\* a climb whose target had run ahead of the return altitude reaches it: the
\* step sets the target back to the return altitude and moves on to Rotate
C26_Witness ==
    /\ Updated
    /\ rs.stepPhase = "RESCUE_ATTAIN_ALT"
    /\ rs.phase = "RESCUE_ROTATE"
    /\ rs.initialAltitudeLow
    /\ rs.currentAltitudeCm > rs.returnAltitudeCm
    /\ rs.targetAltitudeCm = rs.returnAltitudeCm
    /\ rs.altitudeStep = 0

\* C27: a phase-machine step in Rotate leaves for FlyHome exactly when
\* absErrorAngle < 30 degrees, with pitchAngleLimitDeg = maxRescueAngle,
\* proximityToLandingArea = 1 and secondsFailing = 0; otherwise it stays in
\* Rotate with pitchAngleLimitDeg = 0 and yawAttenuator one task interval
\* further up its ramp from 0 to 1
C27_RotateStep ==
    [][(UpdateStep /\ StepFrom.phase = "RESCUE_ROTATE") =>
          LET s == StepFrom
              n == StepTo
          IN  IF s.absErrorAngle < 300
              THEN /\ n.phase = "RESCUE_FLY_HOME"
                   /\ n.pitchAngleLimitDeg = cfg.maxRescueAngle * 100
                   /\ n.proximityToLandingArea = 1000
                   /\ n.secondsFailing = 0
              ELSE /\ n.phase = "RESCUE_ROTATE"
                   /\ n.pitchAngleLimitDeg = 0
                   /\ n.yawAttenuator \in 0..1000
                   /\ n.yawAttenuator =
                        MIN(s.yawAttenuator + s.gpsRescueTaskIntervalSeconds, 1000)]_vars

\* C28: a phase-machine step in FlyHome moves to Descent, with secondsFailing
\* back at 0, exactly when a GPS packet is pending and distanceToHomeM <=
\* descentDistanceM; without a pending packet it stays in FlyHome even with
\* the held distance within descentDistanceM
C28_DescentNeedsPacket ==
    [][(UpdateStep /\ StepFrom.phase = "RESCUE_FLY_HOME") =>
          LET s == StepFrom
              n == StepTo
          IN  IF rs.newGPSData /\ s.distanceToHomeM <= s.descentDistanceM
              THEN n.phase = "RESCUE_DESCENT" /\ n.secondsFailing = 0
              ELSE n.phase = "RESCUE_FLY_HOME"]_vars

\* an update without a packet ran its step in FlyHome, the distance held
\* from the last packet within the descent distance, and is still in FlyHome
C28_Witness ==
    /\ Updated
    /\ ~prev.newGPSData
    /\ prev.phase = "RESCUE_FLY_HOME"
    /\ rs.stepPhase = "RESCUE_FLY_HOME"
    /\ rs.distanceToHomeM <= rs.descentDistanceM
    /\ rs.phase = "RESCUE_FLY_HOME"

\* what the GPS driver reported to the last update: no 3D fix, or fewer
\* satellites than the minimum
SatsAreLow == ~in.fix \/ in.numSat < GPS_MIN_SAT_COUNT

\* C29 as stated: the call that initializes a rescue leaves secondsLowSats at
\* 0; each 1 Hz sanity pass in a non-Idle phase adds 1 to secondsLowSats when
\* there is no 3D fix or too few satellites and subtracts 1 otherwise; failure
\* is LowSats after a pass that leaves the counter at 10, and no call with
\* the counter below 10 sets it to LowSats
C29_LowSatsCounting ==
    /\ (Updated /\ prev.phase = "RESCUE_IDLE" /\ Len(rs.sanityLog) = 2) =>
          /\ rs.sanityLog[1].phase = "RESCUE_INITIALIZE"
          /\ rs.sanityLog[1].secondsLowSats = 0
    /\ \A e \in EndCall :
          /\ e.oneHz => rs.secondsLowSats = e.secondsLowSats + (IF SatsAreLow THEN 1 ELSE -1)
          /\ (e.oneHz /\ rs.secondsLowSats = 10) => rs.failure = "RESCUE_LOWSATS"
          /\ (rs.secondsLowSats < 10 /\ rs.failure = "RESCUE_LOWSATS") =>
                e.passFailure = "RESCUE_LOWSATS"

\* C29 with the counter kept within 0..10: a pass that would take it below 0
\* or above 10 leaves it at 0 or at 10
C29_LowSatsCountingClamped ==
    /\ (Updated /\ prev.phase = "RESCUE_IDLE" /\ Len(rs.sanityLog) = 2) =>
          /\ rs.sanityLog[1].phase = "RESCUE_INITIALIZE"
          /\ rs.sanityLog[1].secondsLowSats = 0
    /\ \A e \in EndCall :
          /\ e.oneHz =>
                rs.secondsLowSats
                  = constrain(e.secondsLowSats + (IF SatsAreLow THEN 1 ELSE -1), 0, 10)
          /\ ~e.oneHz => rs.secondsLowSats = e.secondsLowSats
          /\ (e.oneHz /\ rs.secondsLowSats = 10) => rs.failure = "RESCUE_LOWSATS"
          /\ (rs.secondsLowSats < 10 /\ rs.failure = "RESCUE_LOWSATS") =>
                e.passFailure = "RESCUE_LOWSATS"

\* a pass without a 3D fix takes the counter from 9 to 10 and raises LowSats
C29_Witness ==
    /\ Updated
    /\ ~in.fix
    /\ \E e \in EndCall :
          e.oneHz /\ e.secondsLowSats = 9 /\ e.passFailure = "RESCUE_HEALTHY"
    /\ rs.secondsLowSats = 10
    /\ rs.failure = "RESCUE_LOWSATS"

\* C30: an update whose phase-machine step runs in Idle, armed or with
\* gps_set_home_point_once, leaves maxAltitudeCm at the larger of its former
\* value and currentAltitudeCm and, given a pending GPS packet, returnAltitudeCm
\* at initialAltitudeM * 100 (Fixed), currentAltitudeCm + buffer * 100
\* (Current) or maxAltitudeCm + buffer * 100 (Max); disarmed without
\* gps_set_home_point_once it leaves maxAltitudeCm at 0 and returnAltitudeCm as
\* it was; an update whose step runs in any other phase changes neither
C30_ReturnAltitudeTracking ==
    [][UpdateStep =>
          LET bufferCm == cfg.rescueAltitudeBufferM * 100
          IN  IF rs'.stepPhase # "RESCUE_IDLE"
              THEN /\ rs'.maxAltitudeCm = rs.maxAltitudeCm
                   /\ rs'.returnAltitudeCm = rs.returnAltitudeCm
              ELSE IF in'.armed \/ cfg.gps_set_home_point_once
              THEN /\ rs'.maxAltitudeCm = fmaxf(rs'.currentAltitudeCm, rs.maxAltitudeCm)
                   /\ rs.newGPSData =>
                        rs'.returnAltitudeCm
                          = CASE cfg.altitudeMode = "GPS_RESCUE_ALT_MODE_FIXED" ->
                                    cfg.initialAltitudeM * 100
                              [] cfg.altitudeMode = "GPS_RESCUE_ALT_MODE_CURRENT" ->
                                    rs'.currentAltitudeCm + bufferCm
                              [] cfg.altitudeMode = "GPS_RESCUE_ALT_MODE_MAX" ->
                                    rs'.maxAltitudeCm + bufferCm
              ELSE /\ rs'.maxAltitudeCm = 0
                   /\ rs'.returnAltitudeCm = rs.returnAltitudeCm]_vars

\* in the Max mode an armed craft has come down from its highest point, and
\* an Idle update with a packet returns it above that point, not above where
\* it is
C30_Witness ==
    /\ Updated
    /\ rs.stepPhase = "RESCUE_IDLE"
    /\ prev.newGPSData
    /\ in.armed
    /\ cfg.altitudeMode = "GPS_RESCUE_ALT_MODE_MAX"
    /\ rs.maxAltitudeCm > rs.currentAltitudeCm
    /\ rs.returnAltitudeCm = rs.maxAltitudeCm + cfg.rescueAltitudeBufferM * 100

\* C31: a Landing entered directly from Initialize keeps pitchAngleLimitDeg,
\* rollAngleLimitDeg and targetVelocityCmS at 0 in every update for as long
\* as it lasts (in flights that begin inside minRescueDth and never leave
\* it, every Landing is entered from Initialize)
C31_VerticalLandingKept ==
    (Updated /\ rs.phase = "RESCUE_LANDING" /\ rs.distanceToHomeM < cfg.minRescueDth * 100) =>
        /\ rs.pitchAngleLimitDeg = 0
        /\ rs.rollAngleLimitDeg = 0
        /\ rs.targetVelocityCmS = 0

C33_FailureNeverHeals ==
    [][(UpdateStep /\ rs.phase # "RESCUE_IDLE" /\ rs.failure # "RESCUE_HEALTHY") =>
          \/ rs'.phase = "RESCUE_IDLE"
          \/ /\ rs'.failure # "RESCUE_HEALTHY"
             /\ rs'.phase \in {"RESCUE_DO_NOTHING", "RESCUE_ABORT"}]_vars

\* a rescue that lost its GPS waits in DoNothing; the GPS is healthy again in
\* this update and the failure stays GpsLost
C33_Witness ==
    /\ Updated
    /\ prev.phase = "RESCUE_DO_NOTHING"
    /\ prev.failure = "RESCUE_GPSLOST"
    /\ in.gpsIsHealthy
    /\ rs.healthy
    /\ rs.failure = "RESCUE_GPSLOST"
    /\ rs.phase = "RESCUE_DO_NOTHING"

\* the place of a phase in the order of a rescue; DoNothing and Abort come
\* after every nominal phase
PhaseRank(phase) ==
    CASE phase = "RESCUE_INITIALIZE" -> 1
      [] phase = "RESCUE_ATTAIN_ALT" -> 2
      [] phase = "RESCUE_ROTATE" -> 3
      [] phase = "RESCUE_FLY_HOME" -> 4
      [] phase = "RESCUE_DESCENT" -> 5
      [] phase = "RESCUE_LANDING" -> 6
      [] phase \in {"RESCUE_DO_NOTHING", "RESCUE_ABORT", "RESCUE_COMPLETE"} -> 7
      [] OTHER -> 0

\* phase `to` follows phase `from` within one rescue, or the rescue is over
Forward(from, to) ==
    to = "RESCUE_IDLE" \/ (from # "RESCUE_IDLE" /\ PhaseRank(from) <= PhaseRank(to))

\* C34: within one rescue the phase only moves forward in the order
\* Initialize, AttainAlt, Rotate, FlyHome, Descent, Landing, then DoNothing
\* or Abort: from the phase an update starts in, through the phase its
\* phase-machine step runs in, the phases its last sanity call starts in,
\* escalates to and makes its 1 Hz pass in, to the phase the update ends in,
\* no move goes back to an earlier phase, and DoNothing or Abort is left only
\* for the other of the two or for Idle
C34_PhasesOnlyForward ==
    Updated =>
        /\ prev.phase # "RESCUE_IDLE" => Forward(prev.phase, rs.stepPhase)
        /\ \A e \in EndCall :
              /\ Forward(rs.stepPhase, e.phase)
              /\ Forward(e.phase, e.escalated)
              /\ Forward(e.escalated, e.passPhase)
              /\ Forward(e.passPhase, rs.phase)
        /\ EndCall = {} => rs.phase = "RESCUE_IDLE"

\* a rescue that has flown home and descended goes on to Landing
C34_Witness ==
    /\ Updated
    /\ prev.phase = "RESCUE_DESCENT"
    /\ rs.stepPhase = "RESCUE_DESCENT"
    /\ rs.phase = "RESCUE_LANDING"
    /\ rs.failure = "RESCUE_HEALTHY"

\* a rescue is running and has failed
Failed == rs.phase # "RESCUE_IDLE" /\ rs.failure # "RESCUE_HEALTHY"

\* the last update issued a disarm and ended in Idle
Ended == Updated /\ rs.phase = "RESCUE_IDLE" /\ rs.disarmLog # << >>

C36_CleanFailureBudget ==
    (Updated /\ rs.stepPhase = "RESCUE_INITIALIZE"
             /\ rs.phase \in {"RESCUE_ATTAIN_ALT", "RESCUE_LANDING"}) =>
        rs.secondsFailing = 0

\* C37: after every update that ends in AttainAlt, Rotate, FlyHome, Descent
\* or Landing the held pitch command (the input of the upsampling filter) is
\* within the current pitch limit, so it is 0 while the limit is 0, also in a
\* rescue that follows an earlier one.  pitchAngleLimitDeg is kept in
\* centidegrees, the unit of pitchAdjustment.
C37_HeldPitchWithinLimit ==
    (Updated /\ rs.phase \in {"RESCUE_ATTAIN_ALT", "RESCUE_ROTATE", "RESCUE_FLY_HOME",
                              "RESCUE_DESCENT", "RESCUE_LANDING"}) =>
        /\ rs.pitchAdjustment <= rs.pitchAngleLimitDeg
        /\ -rs.pitchAdjustment <= rs.pitchAngleLimitDeg

\* C38: a disarm with reason GpsRescue is triggered only by an acceleration
\* magnitude computed from the accelerometer reading of that same update: the
\* magnitude compared is the one of this update's reading, and it is above
\* the threshold
C38_DisarmOnFreshAcceleration ==
    (Updated /\ Disarmed("DISARM_REASON_GPS_RESCUE")) =>
        /\ rs.accMagnitude = accMagnitudeOf(in.accADC)
        /\ accMagnitudeOf(in.accADC) > rs.disarmThreshold

\* C39: during Descent and Landing the altitude setpoint never rises: every
\* update whose phase-machine step runs descend() leaves targetAltitudeCm at
\* or below its previous value, with descentRateModifier (permille) within
\* [0, 1], whatever the return altitude is
C39_SetpointNeverRises ==
    [][(UpdateStep /\ rs'.stepPhase \in {"RESCUE_DESCENT", "RESCUE_LANDING"}) =>
           /\ rs'.targetAltitudeCm <= rs.targetAltitudeCm
           /\ rs'.descentRateModifier \in 0..1000]_vars

=============================================================================
